---- MODULE Spec2Model ----
(***************************************************************************)
(* Payment-transaction core of blossombackend: the POST /payments route    *)
(* (checkIdempotency middleware, card charge, per-order Redis lock,        *)
(* createPayment transaction, idempotency ledger write, lock release) and  *)
(* cancelPayment, over a MySQL store (payments, payment_cancellations,     *)
(* idempotency_keys) and a Redis lock store.                               *)
(*                                                                         *)
(* Every await of a handler is one step of the worker that runs it.  A     *)
(* store call that can reject (database, Redis, Order API) may do so in    *)
(* any step.  InnoDB transactions: rows written in a transaction are kept  *)
(* in the worker's txn field until COMMIT; an INSERT on a UNIQUE key waits *)
(* while another open transaction holds the same key value.                *)
(***************************************************************************)
EXTENDS Integers, Sequences, FiniteSets, TLC

\* ---------------------------------------------------------------- bounds
MaxSubmissions == 2      \* POST /payments requests started in one run
MaxCreates == 2          \* direct createPayment calls started in one run
MaxCancels == 2          \* POST /payments/:id/cancel requests started in one run
MaxCalls == 2            \* createPayment calls with arbitrary arguments started in one run
MaxLedgerOps == 3        \* direct calls of the idempotency-key functions started in one run
MaxCardCalls == 1        \* direct processCardPayment calls started in one run
MaxGets == 2             \* GET /payments/:id requests started in one run

\* ------------------------------------------------------------ input sets
Workers == {"w1", "w2"}
Keys == {"k1", "k2"}
Orders == {1, 2}
Methods == {"card", "credit_card"}
Undefined == "undefined"
NULL == "NULL"
TotalPrices == {Undefined, "10"}

\* card_data of a request body: the members processCardPayment reads; NoCard
\* is a body without card_data
NoCard ==
  [defined |-> FALSE, card_number |-> Undefined, card_holder |-> Undefined,
   expiry |-> Undefined, cvv |-> Undefined, saved_card_id |-> Undefined]
ValidCard ==
  [defined |-> TRUE, card_number |-> "4111111111111111", card_holder |-> "KIM",
   expiry |-> "12/30", cvv |-> "123", saved_card_id |-> Undefined]
BadCard == [ValidCard EXCEPT !.card_number = "4111111111111112"]
CardDatas == {NoCard, ValidCard, BadCard}

\* every shape of card_data handed to processCardPayment
CardNumbers == {Undefined, "4111111111111111", "4111-1111-1111-1111", "4111111111111112", "411111111111"}
Expiries == {Undefined, "12/30", "11/26", "10/26", "13/30"}
CVVs == {Undefined, "123", "1234", "12", "12a"}
CardShapes ==
  {NoCard} \cup [defined : {TRUE}, card_number : CardNumbers, card_holder : {Undefined, "KIM"},
                 expiry : Expiries, cvv : CVVs, saved_card_id : {Undefined, "card_1"}]
PayIds == 1 .. (IF MaxSubmissions > MaxCreates THEN MaxSubmissions ELSE MaxCreates)

\* the order service's rows: owner and total never change after creation
OrderUser(o) == 7
OrderTotal(o) == 1000 * o            \* total_price DECIMAL(10, 2), in cents

\* request bodies: one request and every request that differs from it in one field
BaseBody ==
  [idempotency_key |-> "k1", order_id |-> 1, payment_method |-> "credit_card",
   total_price |-> Undefined, card_data |-> NoCard]

Differences(a, b) ==
  (IF a.idempotency_key = b.idempotency_key THEN 0 ELSE 1)
  + (IF a.order_id = b.order_id THEN 0 ELSE 1)
  + (IF a.payment_method = b.payment_method THEN 0 ELSE 1)
  + (IF a.total_price = b.total_price THEN 0 ELSE 1)
  + (IF a.card_data = b.card_data THEN 0 ELSE 1)

Bodies ==
  {b \in [idempotency_key : Keys, order_id : Orders, payment_method : Methods,
          total_price : TotalPrices, card_data : CardDatas] : Differences(b, BaseBody) <= 1}

\* ------------------------------------------------------- pure functions
\* an amount of money: whole cents and thousandths of the unit beyond them
Money(cents, mills) == [defined |-> TRUE, cents |-> cents, mills |-> mills]

\* the value a column DECIMAL(10, 2) keeps of an amount, in cents: the
\* digits after the second decimal are rounded away
Decimal_10_2(amount) == amount.cents + (IF amount.mills >= 5 THEN 1 ELSE 0)

\* JSON.stringify of an object given as its <<name, value>> pairs in
\* insertion order: the text holds the members whose value is not undefined.
JSONStringify(obj) == [json |-> SelectSeq(obj, LAMBDA p : p[2] # Undefined)]

\* JSON.parse of such a text: the object of the members that were written.
JSONParse(str) == str.json

\* SHA-256 hex digest of a string: collision-free on the strings of the model.
Sha256(str) == <<"sha256", str>>

hashRequestData(requestData) == Sha256(JSONStringify(requestData))

\* requestData built by checkIdempotency from req.body
CheckRequestData(b) ==
  << <<"order_id", ToString(b.order_id)>>, <<"payment_method", b.payment_method>>,
     <<"user_id", Undefined>>, <<"items", Undefined>>,
     <<"total_price", b.total_price>> >>

\* requestData built by the route before storeIdempotencyResponse
StoreRequestData(b) ==
  << <<"order_id", ToString(b.order_id)>>, <<"payment_method", b.payment_method>> >>

\* responseData built by the route from createPayment's result
ResponseData(result) ==
  << <<"success", "true">>, <<"payment_id", ToString(result.paymentId)>>,
     <<"status", result.status>>,
     <<"message", IF result.status = "completed"
                    THEN "Payment processed successfully" ELSE "Payment failed">> >>
  \o (IF result.transactionId # Undefined
        THEN << <<"transaction_id", result.transactionId>> >> ELSE << >>)
  \o (IF result.errorMessage # Undefined
        THEN << <<"error_message", result.errorMessage>> >> ELSE << >>)

ErrorBody(code) == << <<"success", "false">>, <<"error_code", code>> >>

\* an integer argument that was passed, and one that was left out
Defined(v) == [defined |-> TRUE, value |-> v]
Missing == [defined |-> FALSE, value |-> 0]

\* isValidUserId: a value is there and it is an integer above 0
isValidUserId(userId) == userId.defined /\ userId.value > 0

\* isValidAmount: 0 < amount, 0.01 <= amount <= 10,000,000
MaxAmountCents == 1000000000
isValidAmount(amount) ==
  /\ amount.defined
  /\ amount.cents > 0 \/ (amount.cents = 0 /\ amount.mills > 0)
  /\ amount.cents < MaxAmountCents \/ (amount.cents = MaxAmountCents /\ amount.mills = 0)
  /\ amount.cents >= 1

\* isValidPaymentMethod: the closed list of methods
ValidMethods == {"card", "credit_card", "debit_card", "bank_transfer", "mobile", "paypal"}
isValidPaymentMethod(method) == method \in ValidMethods

\* error.message of the errors a handler can see, and the words the routes
\* look for in it with String.prototype.includes
DupEntryMsg == "Duplicate entry for key idempotency_key"
DbErrors == {"Connection lost"}
NotFoundMsg == "Payment not found"
NotCompletedMsg == "Only completed payments can be cancelled"
TokenMsg == "Failed to generate random token"
DeclinedMsg == "Payment declined by gateway"
DeadlockMsg == "Deadlock found when trying to get lock; try restarting transaction"
InvalidOrderMsg == "Invalid order_id"
InvalidUserMsg == "Invalid user_id"
InvalidAmountMsg == "Invalid amount"
InvalidMethodMsg == "Invalid payment_method"
InvalidKeyMsg == "Invalid idempotency_key"
InvalidMsgs == {InvalidOrderMsg, InvalidUserMsg, InvalidAmountMsg, InvalidMethodMsg, InvalidKeyMsg}

Includes(msg, word) ==
  CASE word = "Invalid" -> msg \in InvalidMsgs
    [] word = "not found" -> msg = NotFoundMsg
    [] word = "Only completed" -> msg = NotCompletedMsg
    [] word = "transaction" -> msg = DeadlockMsg
    [] OTHER -> FALSE

\* status and error code the catch block of POST /payments derives from error.message
RouteErrorStatus(msg) ==
  IF Includes(msg, "Invalid") THEN 400
  ELSE IF Includes(msg, "not found") THEN 404
  ELSE 500

RouteErrorCode(msg) ==
  IF Includes(msg, "Invalid") THEN "VALIDATION_ERROR"
  ELSE IF Includes(msg, "not found") THEN "NOT_FOUND"
  ELSE IF Includes(msg, "transaction") THEN "TRANSACTION_ERROR"
  ELSE "PAYMENT_FAILED"

\* the same for the catch block of POST /payments/:id/cancel
CancelErrorStatus(msg) ==
  IF Includes(msg, "Invalid") THEN 400
  ELSE IF Includes(msg, "not found") THEN 404
  ELSE IF Includes(msg, "Only completed") THEN 422
  ELSE 500

CancelErrorCode(msg) ==
  IF Includes(msg, "Invalid") THEN "VALIDATION_ERROR"
  ELSE IF Includes(msg, "not found") THEN "PAYMENT_NOT_FOUND"
  ELSE IF Includes(msg, "Only completed") THEN "INVALID_PAYMENT_STATUS"
  ELSE IF Includes(msg, "transaction") THEN "TRANSACTION_ERROR"
  ELSE "CANCELLATION_FAILED"

\* ---------------------------------------------------------------- state
VARIABLES
  wk,             \* per worker: position in its handler and the handler's locals
  payments,       \* committed rows of table payments, by payment_id
  cancellations,  \* committed rows of table payment_cancellations
  ledger,         \* rows of table idempotency_keys, by idempotency_key
  lock,           \* Redis keys payment_lock:{order_id}
  orders,         \* status of each order in the Order API
  charges,        \* charges performed so far, per idempotency key
  nextPay,        \* next fresh payment_id
  nextCan,        \* next fresh cancellation_id
  started,        \* calls started so far: [pay, create, cancel, call, ledger, card, get]
  cancelOk,       \* per payment_id: cancelPayment calls that returned success so far
  deletedCount,   \* the number the last run of cleanupExpiredKeys returned
  paymentStatus,  \* Redis keys payment_status:{paymentId}: the value last sent to redis.set
  cache,          \* Redis keys payments:{id}: the cached payment of GET /payments/:id
  cancelAnswered  \* per payment_id: a cancel request has been answered with success

vars == <<wk, payments, cancellations, ledger, lock, orders, charges,
          nextPay, nextCan, started, cancelOk, deletedCount, paymentStatus, cache, cancelAnswered>>

NoRow == [status |-> "none"]
NoRec == [present |-> FALSE]
NoTxn == [open |-> FALSE]
NoResp == [code |-> 0]
NoBody == [idempotency_key |-> "none"]
Null == [null |-> TRUE]
Unread == [status |-> "unread"]
NoArgs == [idempotencyKey |-> "none"]
NoMoney == [defined |-> FALSE, cents |-> 0, mills |-> 0]

IdleWorker ==
  [pc |-> "idle", op |-> "none", body |-> NoBody, hasLock |-> FALSE,
   cardPaymentResult |-> Null, txn |-> NoTxn, paymentId |-> 0, cancelId |-> 0,
   gatewayResult |-> Null, result |-> Null, error |-> "none",
   charged |-> FALSE, afterSuccess |-> FALSE, prior |-> NoRec, fault |-> FALSE, resp |-> NoResp,
   payment |-> Unread, args |-> NoArgs, userId |-> 0, amount |-> NoMoney, got |-> Null,
   lockError |-> FALSE, storeFault |-> FALSE, orderStatus |-> "unread", gatewayCalls |-> << >>,
   releaseError |-> FALSE, connection |-> FALSE, released |-> 0]

Init ==
  /\ wk = [w \in Workers |-> IdleWorker]
  /\ payments = [p \in PayIds |-> NoRow]
  /\ cancellations = {}
  /\ ledger = [k \in Keys |-> NoRec]
  /\ lock = [o \in Orders |-> "none"]
  /\ orders = [o \in Orders |-> "pending"]
  /\ charges = [k \in Keys |-> 0]
  /\ nextPay = 1
  /\ nextCan = 1
  /\ started = [pay |-> 0, create |-> 0, cancel |-> 0, call |-> 0, ledger |-> 0, card |-> 0, get |-> 0]
  /\ cancelOk = [p \in PayIds |-> 0]
  /\ deletedCount = 0
  /\ paymentStatus = [p \in PayIds |-> NoRec]
  /\ cache = [p \in PayIds |-> NoRec]
  /\ cancelAnswered = [p \in PayIds |-> FALSE]

\* a worker takes its next request once the previous one is answered
Free(w) == wk[w].pc \in {"idle", "done", "got"}

Reply(w, code, body) ==
  [wk EXCEPT ![w].pc = "done", ![w].resp = [code |-> code, body |-> body]]

\* expires_at of a ledger row against the database clock: "later" is
\* expires_at > NOW(), "now" is expires_at = NOW(), "earlier" is expires_at < NOW()
Instants == {"later", "now", "earlier"}

\* WHERE ... AND expires_at >= NOW()
Live_OrNow(k) == ledger[k].present /\ ledger[k].expires_at \in {"later", "now"}

\* a ledger row that SELECT ... AND expires_at > NOW() returns
Live(k) == ledger[k].present /\ ledger[k].expires_at = "later"

\* WHERE expires_at < NOW()
Due_Strict(k) == ledger[k].present /\ ledger[k].expires_at = "earlier"

\* a ledger row that DELETE ... WHERE expires_at <= NOW() removes
Due(k) == ledger[k].present /\ ledger[k].expires_at \in {"now", "earlier"}

\* ------------------------------------------------- POST /payments: entry
\* validatePaymentRequest accepts the body (all bodies of the model are
\* well-formed) and hands over to checkIdempotency.
Submit(w) ==
  /\ Free(w)
  /\ started.pay < MaxSubmissions
  /\ \E b \in Bodies :
       wk' = [wk EXCEPT ![w] = [IdleWorker EXCEPT !.pc = "checkKey", !.op = "pay", !.body = b,
                                                  !.prior = IF Live(b.idempotency_key)
                                                              THEN ledger[b.idempotency_key] ELSE NoRec]]
  /\ started' = [started EXCEPT !.pay = @ + 1]
  /\ UNCHANGED <<payments, cancellations, ledger, lock, orders, charges, nextPay, nextCan, cancelOk, deletedCount, paymentStatus, cache, cancelAnswered>>

\* a catch block of checkIdempotency that answers the request with an error
checkIdempotencyCatch_Reject(w) ==
  [wk EXCEPT ![w].pc = "done", ![w].fault = TRUE,
             ![w].resp = [code |-> 500, body |-> ErrorBody("IDEMPOTENCY_ERROR")]]

\* checkIdempotency's catch block: the error is logged, then next()
checkIdempotencyCatch(w) == [wk EXCEPT ![w].pc = "fetchOrder", ![w].fault = TRUE]

\* checkIdempotency: await checkIdempotencyKey(idempotency_key)
CheckKey(w) ==
  /\ wk[w].pc = "checkKey"
  /\ \/ wk' = checkIdempotencyCatch(w)                      \* query rejects
     \/ /\ ~Live(wk[w].body.idempotency_key)
        /\ wk' = [wk EXCEPT ![w].pc = "fetchOrder"]         \* new request: next()
     \/ /\ Live(wk[w].body.idempotency_key)
        /\ wk' = [wk EXCEPT ![w].pc = "validateRequest"]
  /\ UNCHANGED <<payments, cancellations, ledger, lock, orders, charges, nextPay, nextCan, started, cancelOk, deletedCount, paymentStatus, cache, cancelAnswered>>

\* validateRequestData that never compares the hashes
validateRequestData_NoCompare(k, requestData) == TRUE

\* validateRequestData(key, requestData): no live row counts as the same request
validateRequestData(k, requestData) ==
  IF ~Live(k) THEN TRUE
  ELSE hashRequestData(requestData) = ledger[k].request_hash

\* checkIdempotency: await validateRequestData(...) and the 409 answer
ValidateRequest(w) ==
  /\ wk[w].pc = "validateRequest"
  /\ \/ wk' = checkIdempotencyCatch(w)                      \* query rejects
     \/ /\ ~validateRequestData(wk[w].body.idempotency_key, CheckRequestData(wk[w].body))
        /\ wk' = Reply(w, 409, ErrorBody("DUPLICATE_REQUEST"))
     \/ /\ validateRequestData(wk[w].body.idempotency_key, CheckRequestData(wk[w].body))
        /\ wk' = [wk EXCEPT ![w].pc = "getResult"]
  /\ UNCHANGED <<payments, cancellations, ledger, lock, orders, charges, nextPay, nextCan, started, cancelOk, deletedCount, paymentStatus, cache, cancelAnswered>>

\* checkIdempotency: await getIdempotencyResult(key) and the replay
GetResult(w) ==
  /\ wk[w].pc = "getResult"
  /\ LET k == wk[w].body.idempotency_key IN
     \/ wk' = checkIdempotencyCatch(w)                      \* query rejects
     \/ /\ ~Live(k)
        /\ wk' = [wk EXCEPT ![w].pc = "fetchOrder"]
     \/ /\ Live(k)
        /\ wk' = Reply(w, 200, JSONParse(ledger[k].response_data))
  /\ UNCHANGED <<payments, cancellations, ledger, lock, orders, charges, nextPay, nextCan, started, cancelOk, deletedCount, paymentStatus, cache, cancelAnswered>>

\* an order status check that lets every order through
orderPayable_Any(status) == TRUE

\* if (order.status !== 'pending') return res.status(422)...
orderPayable(status) == status = "pending"

\* ------------------------------------------------ POST /payments: handler
\* axios.get of the order and the order-status check
FetchOrder(w) ==
  /\ wk[w].pc = "fetchOrder"
  /\ LET b == wk[w].body
         \* from here on a rejected ledger query matters only to a later call for the key
         handled == [wk EXCEPT ![w].fault = wk[w].fault /\ wk[w].prior.present] IN
     \/ wk' = [Reply(w, 404, ErrorBody("ORDER_NOT_FOUND")) EXCEPT ![w].fault = handled[w].fault]   \* Order API call rejects
     \/ /\ ~orderPayable(orders[b.order_id])
        /\ wk' = [Reply(w, 422, ErrorBody("INVALID_ORDER_STATUS")) EXCEPT
                   ![w].fault = handled[w].fault, ![w].orderStatus = orders[b.order_id]]
     \/ /\ orderPayable(orders[b.order_id])
        /\ wk' = [handled EXCEPT ![w].orderStatus = orders[b.order_id],
                                 ![w].pc =
                    IF b.card_data.defined /\ b.payment_method \in {"credit_card", "debit_card"}
                      THEN "cardPayment" ELSE "acquireLock",
                    ![w].userId = OrderUser(b.order_id),
                    ![w].amount = Money(OrderTotal(b.order_id), 0)]
  /\ UNCHANGED <<payments, cancellations, ledger, lock, orders, charges, nextPay, nextCan, started, cancelOk, deletedCount, paymentStatus, cache, cancelAnswered>>

\* the characters of the strings card data is made of
Chars(str) ==
  CASE str = "4111111111111111" -> <<"4", "1", "1", "1", "1", "1", "1", "1", "1", "1", "1", "1", "1", "1", "1", "1">>
    [] str = "4111-1111-1111-1111" ->
         <<"4", "1", "1", "1", "-", "1", "1", "1", "1", "-", "1", "1", "1", "1", "-", "1", "1", "1", "1">>
    [] str = "4111111111111112" -> <<"4", "1", "1", "1", "1", "1", "1", "1", "1", "1", "1", "1", "1", "1", "1", "2">>
    [] str = "411111111111" -> <<"4", "1", "1", "1", "1", "1", "1", "1", "1", "1", "1", "1">>
    [] str = "12/30" -> <<"1", "2", "/", "3", "0">>
    [] str = "11/26" -> <<"1", "1", "/", "2", "6">>
    [] str = "10/26" -> <<"1", "0", "/", "2", "6">>
    [] str = "13/30" -> <<"1", "3", "/", "3", "0">>
    [] str = "123" -> <<"1", "2", "3">>
    [] str = "1234" -> <<"1", "2", "3", "4">>
    [] str = "12" -> <<"1", "2">>
    [] str = "12a" -> <<"1", "2", "a">>

DigitChars == {"0", "1", "2", "3", "4", "5", "6", "7", "8", "9"}

\* parseInt(c, 10) of a digit
DigitValue(c) ==
  CASE c = "0" -> 0 [] c = "1" -> 1 [] c = "2" -> 2 [] c = "3" -> 3 [] c = "4" -> 4
    [] c = "5" -> 5 [] c = "6" -> 6 [] c = "7" -> 7 [] c = "8" -> 8 [] c = "9" -> 9

\* the loop of isValidCardNumber from digits[i] down to digits[1]
RECURSIVE LuhnSum(_, _, _)
LuhnSum(digits, i, isEven) ==
  IF i = 0 THEN 0
  ELSE LET digit == DigitValue(digits[i])
           doubled == IF 2 * digit > 9 THEN 2 * digit - 9 ELSE 2 * digit IN
       (IF isEven THEN doubled ELSE digit) + LuhnSum(digits, i - 1, ~isEven)

\* isValidCardNumber: the digits of the string, 13 to 19 of them, Luhn sum
isValidCardNumber(cardNumber) ==
  IF cardNumber = Undefined THEN FALSE
  ELSE LET digits == SelectSeq(Chars(cardNumber), LAMBDA c : c \in DigitChars) IN
       IF Len(digits) < 13 \/ Len(digits) > 19 THEN FALSE
       ELSE LuhnSum(digits, Len(digits), FALSE) % 10 = 0

\* isValidCVV: /^\d{3,4}$/
isValidCVV(cvv) ==
  IF cvv = Undefined THEN FALSE
  ELSE LET c == Chars(cvv) IN
       Len(c) \in {3, 4} /\ \A i \in 1 .. Len(c) : c[i] \in DigitChars

\* the month and the two-digit year of the Node clock
CurrentMonth == 11
CurrentYear == 26

\* isValidExpiry: /^(0[1-9]|1[0-2])\/\d{2}$/ and not before the current month
isValidExpiry(expiry) ==
  IF expiry = Undefined THEN FALSE
  ELSE LET c == Chars(expiry) IN
       IF ~(/\ Len(c) = 5
            /\ c[3] = "/"
            /\ \A i \in {1, 2, 4, 5} : c[i] \in DigitChars
            /\ 10 * DigitValue(c[1]) + DigitValue(c[2]) \in 1 .. 12) THEN FALSE
       ELSE LET expiryMonth == 10 * DigitValue(c[1]) + DigitValue(c[2])
                expiryYear == 10 * DigitValue(c[4]) + DigitValue(c[5]) IN
            ~(expiryYear < CurrentYear \/ (expiryYear = CurrentYear /\ expiryMonth < CurrentMonth))

\* card_number.slice(-4): the last four characters
Slice4(str) == LET c == Chars(str) IN SubSeq(c, Len(c) - 3, Len(c))

\* what processCardPayment returns; cardLast4 is << >> where the member is absent
CardFailure(message) ==
  [null |-> FALSE, success |-> FALSE, transactionId |-> Undefined, cardType |-> Undefined,
   cardLast4 |-> << >>, error |-> message]
CardSuccess(cardType, cardLast4) ==
  [null |-> FALSE, success |-> TRUE, transactionId |-> "TXN-card", cardType |-> cardType,
   cardLast4 |-> cardLast4, error |-> Undefined]

\* processCardPayment that hands the card number on as the transaction id
processCardPayment_EchoNumber(cardData) ==
  IF cardData.defined /\ cardData.card_number # Undefined /\ isValidCardNumber(cardData.card_number)
    THEN [CardSuccess("new", Slice4(cardData.card_number)) EXCEPT !.transactionId = cardData.card_number]
    ELSE CardFailure("Invalid card number")

\* processCardPayment(cardData, amount, orderId): a thrown error is returned
\* as { success: false, error }
processCardPayment(cardData) ==
  IF ~cardData.defined THEN CardFailure("Card data is required")
  ELSE IF cardData.saved_card_id # Undefined THEN CardSuccess("saved", << >>)
  ELSE IF Undefined \in {cardData.card_number, cardData.card_holder, cardData.expiry, cardData.cvv}
    THEN CardFailure("Missing required card information")
  ELSE IF ~isValidCardNumber(cardData.card_number) THEN CardFailure("Invalid card number")
  ELSE IF ~isValidCVV(cardData.cvv) THEN CardFailure("Invalid CVV")
  ELSE IF ~isValidExpiry(cardData.expiry) THEN CardFailure("Invalid expiry date")
  ELSE CardSuccess("new", Slice4(cardData.card_number))

CardPayment(w) ==
  /\ wk[w].pc = "cardPayment"
  /\ LET b == wk[w].body
         r == processCardPayment(b.card_data) IN
     IF r.success
       THEN /\ wk' = [wk EXCEPT ![w].pc = "acquireLock", ![w].cardPaymentResult = r,
                                ![w].charged = TRUE]
            /\ charges' = [charges EXCEPT ![b.idempotency_key] = @ + 1]
       ELSE /\ wk' = Reply(w, 422, ErrorBody("CARD_PAYMENT_FAILED"))
            /\ UNCHANGED charges
  /\ UNCHANGED <<payments, cancellations, ledger, lock, orders, nextPay, nextCan, started, cancelOk, deletedCount, paymentStatus, cache, cancelAnswered>>

\* one direct call of processCardPayment
CardCall(w) ==
  /\ Free(w)
  /\ started.card < MaxCardCalls
  /\ \E cardData \in CardShapes :
       wk' = [wk EXCEPT ![w] = [IdleWorker EXCEPT !.op = "processCardPayment", !.pc = "done",
                                                  !.args = [cardData |-> cardData],
                                                  !.cardPaymentResult = processCardPayment(cardData)]]
  /\ started' = [started EXCEPT !.card = @ + 1]
  /\ UNCHANGED <<payments, cancellations, ledger, lock, orders, charges, nextPay, nextCan, cancelOk, deletedCount, paymentStatus, cache, cancelAnswered>>

\* a catch block around redis.set that gives the request up
lockUnavailable_FailClosed(w) ==
  [wk EXCEPT ![w].pc = "done", ![w].lockError = TRUE,
             ![w].resp = [code |-> 503, body |-> ErrorBody("LOCK_UNAVAILABLE")]]

\* the catch block around redis.set: logged, the payment goes on without lock
lockUnavailable(w) == [wk EXCEPT ![w].pc = "begin", ![w].lockError = TRUE]

\* redis.set(lockKey, 'locked', { NX: true, EX: 30 })
AcquireLock(w) ==
  /\ wk[w].pc = "acquireLock"
  /\ LET o == wk[w].body.order_id IN
     \/ /\ wk' = lockUnavailable(w)                         \* Redis rejects
        /\ UNCHANGED lock
     \/ /\ lock[o] = "none"
        /\ lock' = [lock EXCEPT ![o] = w]
        /\ wk' = [wk EXCEPT ![w].pc = "begin", ![w].hasLock = TRUE]
     \/ /\ lock[o] # "none"
        /\ wk' = Reply(w, 429, ErrorBody("PAYMENT_IN_PROGRESS"))
        /\ UNCHANGED lock
  /\ UNCHANGED <<payments, cancellations, ledger, orders, charges, nextPay, nextCan, started, cancelOk, deletedCount, paymentStatus, cache, cancelAnswered>>

\* finally: if (connection) connection.release()
Finally(w) == IF wk[w].connection THEN wk[w].released + 1 ELSE wk[w].released

\* createPayment throws: a direct caller gets the error; the route's catch
\* block answers with the mapped status (the lock is not released on this path)
RouteCatch(w, msg) ==
  [wk EXCEPT ![w].pc = "done", ![w].error = msg, ![w].txn = NoTxn, ![w].released = Finally(w),
             ![w].resp = IF wk[w].op = "pay"
                           THEN [code |-> RouteErrorStatus(msg), body |-> ErrorBody(RouteErrorCode(msg))]
                           ELSE NoResp]

\* createPayment(orderId, userId, amount, paymentMethod, idempotencyKey, cardPaymentResult)
\* called directly with valid arguments
CreateInputs == {b \in Bodies : b.total_price = Undefined /\ ~b.card_data.defined}
CardResults == {Null, processCardPayment(ValidCard)}

\* createPayment called with arbitrary arguments: one valid call and every
\* call that differs from it in one argument
BaseArgs ==
  [orderId |-> Defined(1), userId |-> Defined(7), amount |-> Money(1000, 0),
   paymentMethod |-> "credit_card", idempotencyKey |-> "k1", cardPaymentResult |-> Null]

ArgDifferences(a, b) ==
  (IF a.orderId = b.orderId THEN 0 ELSE 1)
  + (IF a.userId = b.userId THEN 0 ELSE 1)
  + (IF a.amount = b.amount THEN 0 ELSE 1)
  + (IF a.paymentMethod = b.paymentMethod THEN 0 ELSE 1)
  + (IF a.idempotencyKey = b.idempotencyKey THEN 0 ELSE 1)
  + (IF a.cardPaymentResult = b.cardPaymentResult THEN 0 ELSE 1)

Args ==
  {a \in [orderId : {Defined(1), Defined(2), Defined(0), Defined(0 - 1), Missing},
          userId : {Defined(7), Defined(0), Missing},
          amount : {Money(1000, 0), Money(1000, 4), Money(0, 0), Money(0 - 500, 0),
                    Money(0, 5), Money(MaxAmountCents, 1), NoMoney},
          paymentMethod : {"credit_card", "card", "bitcoin", Undefined},
          idempotencyKey : {"k1", "k2", "", Undefined},
          cardPaymentResult : CardResults] : ArgDifferences(a, BaseArgs) <= 1}

CreatePayment(w) ==
  /\ Free(w)
  /\ started.call < MaxCalls
  /\ \E a \in Args :
       wk' = [wk EXCEPT ![w] = [IdleWorker EXCEPT !.pc = "validate", !.op = "create", !.args = a]]
  /\ started' = [started EXCEPT !.call = @ + 1]
  /\ UNCHANGED <<payments, cancellations, ledger, lock, orders, charges, nextPay, nextCan, cancelOk, deletedCount, paymentStatus, cache, cancelAnswered>>

\* the same checks without the one of the amount
ValidationError_AnyAmount(a) ==
  IF ~isValidUserId(a.orderId) THEN InvalidOrderMsg
  ELSE IF ~isValidUserId(a.userId) THEN InvalidUserMsg
  ELSE IF ~isValidPaymentMethod(a.paymentMethod) THEN InvalidMethodMsg
  ELSE IF a.idempotencyKey \in {Undefined, ""} THEN InvalidKeyMsg
  ELSE "none"

\* createPayment's input checks: the first one that fails throws
ValidationError(a) ==
  IF ~isValidUserId(a.orderId) THEN InvalidOrderMsg
  ELSE IF ~isValidUserId(a.userId) THEN InvalidUserMsg
  ELSE IF ~isValidAmount(a.amount) THEN InvalidAmountMsg
  ELSE IF ~isValidPaymentMethod(a.paymentMethod) THEN InvalidMethodMsg
  ELSE IF a.idempotencyKey \in {Undefined, ""} THEN InvalidKeyMsg
  ELSE "none"

\* createPayment: the input checks; no connection exists yet when one throws
Validate(w) ==
  /\ wk[w].pc = "validate"
  /\ LET a == wk[w].args IN
     IF ValidationError(a) # "none"
       THEN wk' = RouteCatch(w, ValidationError(a))
       ELSE wk' = [wk EXCEPT ![w].pc = "begin",
                             ![w].body = [idempotency_key |-> a.idempotencyKey,
                                          order_id |-> a.orderId.value,
                                          payment_method |-> a.paymentMethod,
                                          total_price |-> Undefined, card_data |-> NoCard],
                             ![w].userId = a.userId.value,
                             ![w].amount = a.amount,
                             ![w].cardPaymentResult = a.cardPaymentResult]
  /\ UNCHANGED <<payments, cancellations, ledger, lock, orders, charges, nextPay, nextCan, started, cancelOk, deletedCount, paymentStatus, cache, cancelAnswered>>

CreateCall(w) ==
  /\ Free(w)
  /\ started.create < MaxCreates
  /\ \E b \in CreateInputs, c \in CardResults :
       wk' = [wk EXCEPT ![w] = [IdleWorker EXCEPT !.pc = "begin", !.op = "create", !.body = b,
                                                  !.cardPaymentResult = c,
                                                  !.userId = OrderUser(b.order_id),
                                                  !.amount = Money(OrderTotal(b.order_id), 0)]]
  /\ started' = [started EXCEPT !.create = @ + 1]
  /\ UNCHANGED <<payments, cancellations, ledger, lock, orders, charges, nextPay, nextCan, cancelOk, deletedCount, paymentStatus, cache, cancelAnswered>>

\* createPayment: db.getConnection() and connection.beginTransaction()
Begin(w) ==
  /\ wk[w].pc = "begin"
  /\ \/ \E e \in DbErrors : wk' = RouteCatch(w, e)           \* getConnection rejects
     \/ \E e \in DbErrors :                                   \* beginTransaction rejects
          wk' = [wk EXCEPT ![w].pc = "rollback", ![w].error = e, ![w].connection = TRUE]
     \/ wk' = [wk EXCEPT ![w].pc = "insert", ![w].connection = TRUE,
                         ![w].txn = [open |-> TRUE, row |-> NoRow]]
  /\ UNCHANGED <<payments, cancellations, ledger, lock, orders, charges, nextPay, nextCan, started, cancelOk, deletedCount, paymentStatus, cache, cancelAnswered>>

\* rows of payments with this idempotency key: committed, and held by open transactions
CommittedWithKey(k) == {p \in PayIds : payments[p].status # "none" /\ payments[p].idempotency_key = k}
HeldWithKey(w, k) ==
  {v \in Workers \ {w} : wk[v].txn.open /\ wk[v].op \in {"pay", "create"}
                            /\ wk[v].txn.row.status # "none" /\ wk[v].txn.row.idempotency_key = k}

\* payments.idempotency_key with a plain index instead of the UNIQUE one
UniqueKeyFree_PlainIndex(k) == TRUE

\* the UNIQUE index on payments.idempotency_key lets the INSERT through
UniqueKeyFree(k) == CommittedWithKey(k) = {}

\* a createPayment that asks the gateway whatever it was handed
usesCardResult_Never(cardPaymentResult) == FALSE

\* if (cardPaymentResult) { gatewayResult = {...} } else { processPaymentGateway(...) }
usesCardResult(cardPaymentResult) == ~cardPaymentResult.null

\* createPayment: INSERT INTO payments (... 'pending' ...)
Insert(w) ==
  /\ wk[w].pc = "insert"
  /\ LET b == wk[w].body
         k == b.idempotency_key
         row == [payment_id |-> nextPay, order_id |-> b.order_id, user_id |-> wk[w].userId,
                 amount |-> Decimal_10_2(wk[w].amount), payment_method |-> b.payment_method,
                 status |-> "pending", transaction_id |-> NULL, gateway_response |-> NULL,
                 idempotency_key |-> k] IN
     /\ HeldWithKey(w, k) = {}                                \* else the INSERT waits
     /\ \/ \E e \in DbErrors :
             wk' = [wk EXCEPT ![w].pc = "rollback", ![w].error = e, ![w].paymentId = nextPay]
        \/ /\ ~UniqueKeyFree(k)
           /\ wk' = [wk EXCEPT ![w].pc = "rollback", ![w].error = DupEntryMsg,
                               ![w].paymentId = nextPay]
        \/ /\ UniqueKeyFree(k)
           /\ wk' = [wk EXCEPT ![w].pc = IF usesCardResult(wk[w].cardPaymentResult) THEN "finalize" ELSE "gateway",
                               ![w].paymentId = nextPay,
                               ![w].txn.row = row,
                               ![w].gatewayResult =
                                 IF ~usesCardResult(wk[w].cardPaymentResult) THEN Null
                                 ELSE [null |-> FALSE, success |-> TRUE,
                                       transactionId |-> wk[w].cardPaymentResult.transactionId,
                                       errorMessage |-> Undefined]]
  /\ nextPay' = nextPay + 1
  /\ UNCHANGED <<payments, cancellations, ledger, lock, orders, charges, nextCan, started, cancelOk, deletedCount, paymentStatus, cache, cancelAnswered>>

\* createPayment: processPaymentGateway(paymentId, amount, paymentMethod)
Gateway(w) ==
  /\ wk[w].pc = "gateway"
  /\ LET invoked == Append(wk[w].gatewayCalls,
                           [paymentId |-> wk[w].paymentId, amount |-> wk[w].amount,
                            paymentMethod |-> wk[w].body.payment_method]) IN
     \/ /\ wk' = [wk EXCEPT ![w].pc = "finalize", ![w].charged = TRUE, ![w].gatewayCalls = invoked,
                            ![w].gatewayResult = [null |-> FALSE, success |-> TRUE,
                                                  transactionId |-> "TXN_gw", errorMessage |-> Undefined]]
        /\ charges' = [charges EXCEPT ![wk[w].body.idempotency_key] = @ + 1]
     \/ /\ wk' = [wk EXCEPT ![w].pc = "finalize", ![w].gatewayCalls = invoked,
                            ![w].gatewayResult = [null |-> FALSE, success |-> FALSE,
                                                  transactionId |-> Undefined, errorMessage |-> DeclinedMsg]]
        /\ UNCHANGED charges
     \/ /\ wk' = [wk EXCEPT ![w].pc = "rollback", ![w].error = TokenMsg, ![w].gatewayCalls = invoked]
        /\ UNCHANGED charges
  /\ UNCHANGED <<payments, cancellations, ledger, lock, orders, nextPay, nextCan, started, cancelOk, deletedCount, paymentStatus, cache, cancelAnswered>>

\* approvePayment whose UPDATE sets the status alone
approvePayment_StatusOnly(row, transactionId) == [row EXCEPT !.status = "completed"]

\* approvePayment: UPDATE payments SET status = 'completed', transaction_id = ?
approvePayment(row, transactionId) ==
  [row EXCEPT !.status = "completed", !.transaction_id = transactionId]

\* failPayment whose UPDATE sets the status alone
failPayment_NoReason(row, errorMessage) == [row EXCEPT !.status = "failed"]

\* failPayment whose UPDATE records the reason and leaves the status
failPayment_KeepStatus(row, errorMessage) == [row EXCEPT !.gateway_response = errorMessage]

\* failPayment: UPDATE payments SET status = 'failed', gateway_response = ?
failPayment(row, errorMessage) ==
  [row EXCEPT !.status = "failed", !.gateway_response = errorMessage]

\* createPayment: await approvePayment(...) or await failPayment(...)
Finalize(w) ==
  /\ wk[w].pc = "finalize"
  /\ LET g == wk[w].gatewayResult IN
     \/ \E e \in DbErrors : wk' = [wk EXCEPT ![w].pc = "rollback", ![w].error = e]
     \/ wk' = [wk EXCEPT ![w].pc = "commit",
                         ![w].txn.row = IF g.success THEN approvePayment(@, g.transactionId)
                                        ELSE failPayment(@, g.errorMessage)]
  /\ UNCHANGED <<payments, cancellations, ledger, lock, orders, charges, nextPay, nextCan, started, cancelOk, deletedCount, paymentStatus, cache, cancelAnswered>>

\* createPayment: connection.commit() and the returned result
Commit(w) ==
  /\ wk[w].pc = "commit"
  /\ LET g == wk[w].gatewayResult
         row == wk[w].txn.row IN
     \/ /\ \E e \in DbErrors : wk' = [wk EXCEPT ![w].pc = "rollback", ![w].error = e]
        /\ UNCHANGED payments
     \/ /\ payments' = [payments EXCEPT ![row.payment_id] = row]
        /\ wk' = [wk EXCEPT ![w].pc = IF wk[w].op = "create" THEN "done"
                                          ELSE IF g.success THEN "patchOrder" ELSE "store",
                            ![w].txn = NoTxn, ![w].released = Finally(w),
                            ![w].result = [null |-> FALSE, paymentId |-> row.payment_id,
                                           status |-> IF g.success THEN "completed" ELSE "failed",
                                           transactionId |-> g.transactionId,
                                           errorMessage |-> g.errorMessage]]
  /\ UNCHANGED <<cancellations, ledger, lock, orders, charges, nextPay, nextCan, started, cancelOk, deletedCount, paymentStatus, cache, cancelAnswered>>

\* createPayment's catch: connection.rollback() (a failing rollback is logged),
\* the error is thrown on to the route's catch block
Rollback(w) ==
  /\ wk[w].pc = "rollback"
  /\ wk[w].op \in {"pay", "create"}
  /\ wk' = RouteCatch(w, wk[w].error)
  /\ UNCHANGED <<payments, cancellations, ledger, lock, orders, charges, nextPay, nextCan, started, cancelOk, deletedCount, paymentStatus, cache, cancelAnswered>>

\* getPaymentById(paymentId): the committed row, with one of its Cancellation
\* rows attached when there are any; null when there is no row
getPaymentById(p, c) ==
  IF payments[p].status = "none" THEN Null
  ELSE [null |-> FALSE, payment |-> payments[p], cancellation |-> c]

\* the caller of createPayment goes on to read the payment it got back
GetCall(w) ==
  /\ wk[w].op = "create" /\ wk[w].pc = "done"
  /\ wk[w].args # NoArgs
  /\ ~wk[w].result.null
  /\ wk' = [wk EXCEPT ![w].pc = "getPayment"]
  /\ UNCHANGED <<payments, cancellations, ledger, lock, orders, charges, nextPay, nextCan, started, cancelOk, deletedCount, paymentStatus, cache, cancelAnswered>>

GetPayment(w) ==
  /\ wk[w].pc = "getPayment"
  /\ LET p == wk[w].result.paymentId
         found == {c.cancellation_id : c \in {x \in cancellations : x.payment_id = p}} IN
     \/ \E e \in DbErrors : wk' = [wk EXCEPT ![w].pc = "got", ![w].error = e]
     \/ \E c \in (IF found = {} THEN {0} ELSE found) :
          wk' = [wk EXCEPT ![w].pc = "got", ![w].got = getPaymentById(p, c)]
  /\ UNCHANGED <<payments, cancellations, ledger, lock, orders, charges, nextPay, nextCan, started, cancelOk, deletedCount, paymentStatus, cache, cancelAnswered>>

\* axios.patch of the order status after a completed payment
PatchOrder(w) ==
  /\ wk[w].pc = "patchOrder"
  /\ \/ orders' = [orders EXCEPT ![wk[w].body.order_id] = "paid"]
     \/ UNCHANGED orders                                      \* Order API call rejects: logged
  /\ wk' = [wk EXCEPT ![w].pc = "store"]
  /\ UNCHANGED <<payments, cancellations, ledger, lock, charges, nextPay, nextCan, started, cancelOk, deletedCount, paymentStatus, cache, cancelAnswered>>

\* the row storeIdempotencyKey writes: expires_at is 24 h after the write
LedgerRow(requestData, response, code) ==
  [present |-> TRUE, expires_at |-> "later",
   request_hash |-> hashRequestData(requestData),
   response_data |-> JSONStringify(response),
   firstCode |-> code]

\* INSERT INTO idempotency_keys ... ON DUPLICATE KEY UPDATE ...
storeIdempotencyKey_Upsert(k, requestData, response, code) ==
  [ledger EXCEPT ![k] = LedgerRow(requestData, response, code)]

\* storeIdempotencyKey: INSERT INTO idempotency_keys; the UNIQUE index on
\* idempotency_key rejects a second row (ER_DUP_ENTRY, ignored)
storeIdempotencyKey(k, requestData, response, code) ==
  IF ledger[k].present THEN ledger
  ELSE [ledger EXCEPT ![k] = LedgerRow(requestData, response, code)]

\* storeIdempotencyResponse(...), then res.status(statusCode).json(responseData)
Store(w) ==
  /\ wk[w].pc = "store"
  /\ LET b == wk[w].body
         responseData == ResponseData(wk[w].result)
         statusCode == IF wk[w].result.status = "completed" THEN 200 ELSE 422 IN
     /\ \/ /\ ledger' = storeIdempotencyKey(b.idempotency_key, StoreRequestData(b), responseData, statusCode)
           /\ wk' = [wk EXCEPT ![w].pc = "release",
                               ![w].resp = [code |-> statusCode, body |-> responseData]]
        \/ /\ UNCHANGED ledger                                \* the INSERT rejects: logged
           /\ wk' = [wk EXCEPT ![w].pc = "release", ![w].storeFault = TRUE,
                               ![w].resp = [code |-> statusCode, body |-> responseData]]
  /\ UNCHANGED <<payments, cancellations, lock, orders, charges, nextPay, nextCan, started, cancelOk, deletedCount, paymentStatus, cache, cancelAnswered>>

\* the value of a key payment_lock:{order_id}
LockValue == "locked"

\* the value the route writes under payment_status:{paymentId}
TempStatusValue(w) ==
  JSONStringify(<< <<"status", wk[w].result.status>>,
                   <<"order_id", ToString(wk[w].body.order_id)>>,
                   <<"user_id", ToString(wk[w].userId)>> >>)

\* after the response: redis.del of the payment caches,
\* redis.set(tempKey, JSON.stringify({...}), { EX: 600 }) and
\* if (hasLock) redis.del(lockKey); each in a try block of its own
Release(w) ==
  /\ wk[w].pc = "release"
  /\ LET o == wk[w].body.order_id IN
     \/ /\ wk[w].hasLock
        /\ lock' = [lock EXCEPT ![o] = "none"]
        /\ wk' = [wk EXCEPT ![w].pc = "done"]
     \/ /\ wk[w].hasLock                                     \* Redis rejects: logged
        /\ UNCHANGED lock
        /\ wk' = [wk EXCEPT ![w].pc = "done", ![w].releaseError = TRUE]
     \/ /\ ~wk[w].hasLock                                    \* no lock taken
        /\ UNCHANGED lock
        /\ wk' = [wk EXCEPT ![w].pc = "done"]
  /\ paymentStatus' = [paymentStatus EXCEPT ![wk[w].result.paymentId] =
                                            [present |-> TRUE, value |-> TempStatusValue(w)]]
  /\ UNCHANGED <<payments, cancellations, ledger, orders, charges, nextPay, nextCan, started, cancelOk, deletedCount, cache, cancelAnswered>>

\* --------------------------------------------------------------- the stores
\* a lock key written without EX never runs out
LockExpire_NoTTL(o) ==
  /\ FALSE
  /\ UNCHANGED vars

\* the 30 s TTL of payment_lock:{order_id} runs out
LockExpire(o) ==
  /\ lock[o] # "none"
  /\ lock' = [lock EXCEPT ![o] = "none"]
  /\ UNCHANGED <<wk, payments, cancellations, ledger, orders, charges, nextPay, nextCan, started, cancelOk, deletedCount, paymentStatus, cache, cancelAnswered>>

\* the database clock reaches, then passes, expires_at of a ledger row
LedgerExpire(k) ==
  /\ ledger[k].present
  /\ ledger[k].expires_at # "earlier"
  /\ ledger' = [ledger EXCEPT ![k].expires_at = IF @ = "later" THEN "now" ELSE "earlier"]
  /\ UNCHANGED <<wk, payments, cancellations, lock, orders, charges, nextPay, nextCan, started, cancelOk, deletedCount, paymentStatus, cache, cancelAnswered>>

\* cleanupExpiredKeys: DELETE FROM idempotency_keys WHERE expires_at <= NOW()
\* leaves these rows
SweptLedger == [k \in Keys |-> IF Due(k) THEN NoRec ELSE ledger[k]]

\* result.affectedRows of that DELETE
DeletedCount == Cardinality({k \in Keys : Due(k)})

\* one run of cleanupExpiredKeys() by a maintenance job: the DELETE and
\* return deletedCount (a DELETE that rejects changes nothing and is thrown on)
cleanupExpiredKeys ==
  /\ ledger' = SweptLedger
  /\ deletedCount' = DeletedCount
  /\ UNCHANGED <<wk, payments, cancellations, lock, orders, charges, nextPay, nextCan, started, cancelOk, paymentStatus, cache, cancelAnswered>>

\* ------------------------------------- the idempotency-key functions, called directly
\* arguments of the calls: a key, or none; the request data and the responses
\* the payment route passes
LedgerKeys == Keys \cup {Undefined}
LedgerRequests == {StoreRequestData([BaseBody EXCEPT !.order_id = o]) : o \in Orders}
LedgerResponses ==
  {ResponseData([paymentId |-> p, status |-> "completed",
                 transactionId |-> "TXN", errorMessage |-> Undefined]) : p \in PayIds}

\* storeIdempotencyKey(key, requestData, response): the argument checks
StoreCall(w) ==
  /\ Free(w)
  /\ started.ledger < MaxLedgerOps
  /\ \E k \in LedgerKeys, requestData \in LedgerRequests, response \in LedgerResponses :
       wk' = [wk EXCEPT ![w] =
                [IdleWorker EXCEPT !.op = "store",
                                   !.args = [key |-> k, requestData |-> requestData, response |-> response],
                                   !.pc = IF k = Undefined THEN "done" ELSE "ledgerInsert",
                                   !.error = IF k = Undefined THEN InvalidKeyMsg ELSE "none"]]
  /\ started' = [started EXCEPT !.ledger = @ + 1]
  /\ UNCHANGED <<payments, cancellations, ledger, lock, orders, charges, nextPay, nextCan, cancelOk, deletedCount, paymentStatus, cache, cancelAnswered>>

\* catch (error): every error is thrown on
storeIdempotencyKeyCatch_Rethrow(code, message) == message

\* catch (error): ER_DUP_ENTRY is logged and the call returns; any other
\* error is thrown on
storeIdempotencyKeyCatch(code, message) ==
  IF code = "ER_DUP_ENTRY" THEN "none" ELSE message

\* storeIdempotencyKey: await db.execute(INSERT ...) and the catch block
LedgerInsert(w) ==
  /\ wk[w].pc = "ledgerInsert"
  /\ LET a == wk[w].args IN
     \/ /\ ledger' = storeIdempotencyKey(a.key, a.requestData, a.response, 0)
        /\ wk' = [wk EXCEPT ![w].pc = "done", ![w].prior = ledger[a.key],
                            ![w].error = IF ledger[a.key].present
                                           THEN storeIdempotencyKeyCatch("ER_DUP_ENTRY", DupEntryMsg)
                                           ELSE "none"]
     \/ /\ UNCHANGED ledger                                \* the statement rejects
        /\ \E e \in DbErrors :
             wk' = [wk EXCEPT ![w].pc = "done", ![w].prior = ledger[a.key],
                              ![w].error = storeIdempotencyKeyCatch("PROTOCOL_CONNECTION_LOST", e)]
  /\ UNCHANGED <<payments, cancellations, lock, orders, charges, nextPay, nextCan, started, cancelOk, deletedCount, paymentStatus, cache, cancelAnswered>>

\* checkIdempotencyKey(key): results.length > 0
checkIdempotencyKey(k) == Live(k)

\* getIdempotencyResult(key): null, or JSON.parse(result.response_data)
getIdempotencyResult(k) ==
  IF Live(k) THEN [null |-> FALSE, value |-> JSONParse(ledger[k].response_data)] ELSE Null

LookupFunctions == {"checkIdempotencyKey", "validateRequestData", "getIdempotencyResult"}

\* one call of checkIdempotencyKey, validateRequestData or getIdempotencyResult
LedgerLookup(w) ==
  /\ Free(w)
  /\ started.ledger < MaxLedgerOps
  /\ \E f \in LookupFunctions, k \in LedgerKeys, requestData \in LedgerRequests :
       LET call == [IdleWorker EXCEPT !.op = f, !.pc = "done",
                                      !.args = IF f = "validateRequestData"
                                                 THEN [key |-> k, requestData |-> requestData]
                                                 ELSE [key |-> k]] IN
       \/ /\ k = Undefined
          /\ wk' = [wk EXCEPT ![w] = [call EXCEPT !.error = InvalidKeyMsg]]
       \/ /\ k # Undefined
          /\ \E e \in DbErrors :                           \* the query rejects
               wk' = [wk EXCEPT ![w] = [call EXCEPT !.error = e, !.prior = ledger[k]]]
       \/ /\ k # Undefined
          /\ wk' = [wk EXCEPT ![w] =
                      [call EXCEPT !.prior = ledger[k],
                                   !.result =
                                     [null |-> FALSE,
                                      value |-> CASE f = "checkIdempotencyKey" -> [exists |-> checkIdempotencyKey(k)]
                                                  [] f = "validateRequestData" -> [isValid |-> validateRequestData(k, requestData)]
                                                  [] OTHER -> [responseData |-> getIdempotencyResult(k)]]]]
  /\ started' = [started EXCEPT !.ledger = @ + 1]
  /\ UNCHANGED <<payments, cancellations, ledger, lock, orders, charges, nextPay, nextCan, cancelOk, deletedCount, paymentStatus, cache, cancelAnswered>>

\* ------------------------------------------- POST /payments/:id/cancel
\* validateCancellationRequest accepts the id; cancelPayment(id, reason, cancelledBy) starts
CancelSubmit(w) ==
  /\ Free(w)
  /\ started.cancel < MaxCancels
  /\ \E p \in PayIds :
       wk' = [wk EXCEPT ![w] = [IdleWorker EXCEPT !.pc = "cBegin", !.op = "cancel", !.paymentId = p,
                                                  !.afterSuccess = (cancelOk[p] > 0)]]
  /\ started' = [started EXCEPT !.cancel = @ + 1]
  /\ UNCHANGED <<payments, cancellations, ledger, lock, orders, charges, nextPay, nextCan, cancelOk, deletedCount, paymentStatus, cache, cancelAnswered>>

\* the cancel route's catch block
CancelCatch(w, msg) ==
  [wk EXCEPT ![w].pc = "done", ![w].error = msg, ![w].txn = NoTxn, ![w].released = Finally(w),
             ![w].resp = [code |-> CancelErrorStatus(msg), body |-> ErrorBody(CancelErrorCode(msg))]]

\* cancelPayment: db.getConnection() and connection.beginTransaction()
CBegin(w) ==
  /\ wk[w].pc = "cBegin"
  /\ \/ \E e \in DbErrors : wk' = CancelCatch(w, e)          \* getConnection rejects
     \/ \E e \in DbErrors :                                   \* beginTransaction rejects
          wk' = [wk EXCEPT ![w].pc = "rollback", ![w].error = e, ![w].connection = TRUE]
     \/ wk' = [wk EXCEPT ![w].pc = "cSelect", ![w].connection = TRUE,
                         ![w].txn = [open |-> TRUE, can |-> 0, upd |-> FALSE]]
  /\ UNCHANGED <<payments, cancellations, ledger, lock, orders, charges, nextPay, nextCan, started, cancelOk, deletedCount, paymentStatus, cache, cancelAnswered>>

\* a status check that only asks for a finished payment
Cancellable_AnyFinal(payment) == payment.status \in {"completed", "failed"}

\* a status check that lets every existing payment through
Cancellable_Any(payment) == payment.status # "none"

\* cancelPayment's check: payment.status === 'completed'
Cancellable(payment) == payment.status = "completed"

\* cancelPayment: SELECT * FROM payments WHERE payment_id = ? and the status check
CSelect(w) ==
  /\ wk[w].pc = "cSelect"
  /\ LET payment == payments[wk[w].paymentId] IN
     \/ \E e \in DbErrors : wk' = [wk EXCEPT ![w].pc = "rollback", ![w].error = e]
     \/ /\ payment.status = "none"
        /\ wk' = [wk EXCEPT ![w].pc = "rollback", ![w].error = NotFoundMsg, ![w].payment = NoRow]
     \/ /\ payment.status # "none" /\ ~Cancellable(payment)
        /\ wk' = [wk EXCEPT ![w].pc = "rollback", ![w].error = NotCompletedMsg,
                            ![w].payment = [status |-> payment.status]]
     \/ /\ payment.status # "none" /\ Cancellable(payment)
        /\ wk' = [wk EXCEPT ![w].pc = "cInsert", ![w].payment = [status |-> payment.status]]
  /\ UNCHANGED <<payments, cancellations, ledger, lock, orders, charges, nextPay, nextCan, started, cancelOk, deletedCount, paymentStatus, cache, cancelAnswered>>

\* cancelPayment: INSERT INTO payment_cancellations with a fresh cancellation_id
CInsert(w) ==
  /\ wk[w].pc = "cInsert"
  /\ \/ \E e \in DbErrors : wk' = [wk EXCEPT ![w].pc = "rollback", ![w].error = e]
     \/ wk' = [wk EXCEPT ![w].pc = "cUpdate", ![w].txn.can = nextCan, ![w].cancelId = nextCan]
  /\ nextCan' = nextCan + 1
  /\ UNCHANGED <<payments, cancellations, ledger, lock, orders, charges, nextPay, started, cancelOk, deletedCount, paymentStatus, cache, cancelAnswered>>

\* another open transaction has updated this row of payments and holds its row lock
RowLocked(w, p) ==
  \E v \in Workers \ {w} : wk[v].op = "cancel" /\ wk[v].txn.open /\ wk[v].txn.upd /\ wk[v].paymentId = p

\* another open transaction has inserted a Cancellation row for this payment
\* (its foreign-key check holds a shared lock on the parent's index record)
\* and now waits with its own UPDATE
ParentShared(w, p) ==
  \E v \in Workers \ {w} : wk[v].op = "cancel" /\ wk[v].txn.open /\ wk[v].txn.can # 0
                             /\ ~wk[v].txn.upd /\ wk[v].pc = "cUpdate" /\ wk[v].paymentId = p

\* the UPDATE of cancelPayment without its effect on the status
CancelledRow_NoUpdate(row) == row

\* UPDATE payments SET status = 'cancelled', updated_at = NOW()
CancelledRow(row) == [row EXCEPT !.status = "cancelled"]

\* cancelPayment: UPDATE payments SET status = 'cancelled' WHERE payment_id = ?
CUpdate(w) ==
  /\ wk[w].pc = "cUpdate"
  /\ ~RowLocked(w, wk[w].paymentId)                           \* else the UPDATE waits
  /\ \/ \E e \in DbErrors : wk' = [wk EXCEPT ![w].pc = "rollback", ![w].error = e]
     \/ /\ ParentShared(w, wk[w].paymentId)                  \* lock cycle: InnoDB rolls one back
        /\ wk' = [wk EXCEPT ![w].pc = "rollback", ![w].error = DeadlockMsg, ![w].txn = NoTxn]
     \/ wk' = [wk EXCEPT ![w].pc = "cCommit", ![w].txn.upd = TRUE]
  /\ UNCHANGED <<payments, cancellations, ledger, lock, orders, charges, nextPay, nextCan, started, cancelOk, deletedCount, paymentStatus, cache, cancelAnswered>>

\* cancelPayment: connection.commit(); the route goes on to its cache delete
CCommit(w) ==
  /\ wk[w].pc = "cCommit"
  /\ LET p == wk[w].paymentId
         c == wk[w].txn.can IN
     \/ /\ \E e \in DbErrors : wk' = [wk EXCEPT ![w].pc = "rollback", ![w].error = e]
        /\ UNCHANGED <<payments, cancellations, cancelOk, deletedCount, paymentStatus, cache, cancelAnswered>>
     \/ /\ cancellations' = cancellations \cup {[cancellation_id |-> c, payment_id |-> p]}
        /\ payments' = [payments EXCEPT ![p] = CancelledRow(@)]
        /\ cancelOk' = [cancelOk EXCEPT ![p] = @ + 1]
        /\ wk' = [wk EXCEPT ![w].pc = "cacheDelete", ![w].txn = NoTxn, ![w].released = Finally(w)]
  /\ UNCHANGED <<ledger, lock, orders, charges, nextPay, nextCan, started, deletedCount, paymentStatus, cache, cancelAnswered>>

\* the cancel route after cancelPayment: redis.del of payments:{id} (a
\* rejection is logged), then the answer 200 with the cancellation id
CacheDelete(w) ==
  /\ wk[w].pc = "cacheDelete"
  /\ LET p == wk[w].paymentId IN
     /\ \/ cache' = [cache EXCEPT ![p] = NoRec]
        \/ UNCHANGED cache                                   \* redis.del rejects: logged
     /\ cancelAnswered' = [cancelAnswered EXCEPT ![p] = TRUE]
  /\ wk' = [wk EXCEPT ![w].pc = "done",
                      ![w].resp = [code |-> 200,
                                   body |-> << <<"success", "true">>,
                                               <<"cancellation_id", ToString(wk[w].cancelId)>>,
                                               <<"status", "cancelled">> >>]]
  /\ UNCHANGED <<payments, cancellations, ledger, lock, orders, charges, nextPay, nextCan, started, cancelOk, deletedCount, paymentStatus>>

\* cancelPayment's catch: await connection.rollback(); a rejecting rollback
\* replaces the error that is thrown on to the route
CRollback(w) ==
  /\ wk[w].pc = "rollback"
  /\ wk[w].op = "cancel"
  /\ \/ wk' = CancelCatch(w, wk[w].error)
     \/ \E e \in DbErrors : wk' = CancelCatch(w, e)
  /\ UNCHANGED <<payments, cancellations, ledger, lock, orders, charges, nextPay, nextCan, started, cancelOk, deletedCount, paymentStatus, cache, cancelAnswered>>

\* ------------------------------------------------- GET /payments/:id
\* keys of a payment object whose values maskSensitiveData redacts or masks
SensitiveKeys ==
  {"cvv", "cvc", "cvv2", "password", "api_key", "apiKey", "secret", "token", "access_token",
   "refresh_token", "card_number", "cardNumber", "card", "email", "phone", "phone_number",
   "phoneNumber", "mobile"}

\* maskSensitiveData: a copy in which the sensitive fields are replaced
maskSensitiveData(data) ==
  [f \in DOMAIN data |-> IF f \in SensitiveKeys THEN "[REDACTED]" ELSE data[f]]

\* the route starts for payment id
GetSubmit(w) ==
  /\ Free(w)
  /\ started.get < MaxGets
  /\ \E p \in PayIds :
       wk' = [wk EXCEPT ![w] = [IdleWorker EXCEPT !.pc = "cacheGet", !.op = "get", !.paymentId = p,
                                                  !.afterSuccess = cancelAnswered[p]]]
  /\ started' = [started EXCEPT !.get = @ + 1]
  /\ UNCHANGED <<payments, cancellations, ledger, lock, orders, charges, nextPay, nextCan, cancelOk, deletedCount, paymentStatus, cache, cancelAnswered>>

\* redis.get(cacheKey): a hit is answered from the cache; a miss or a Redis
\* error goes on to the database
CacheGet(w) ==
  /\ wk[w].pc = "cacheGet"
  /\ LET cached == cache[wk[w].paymentId] IN
     \/ /\ cached.present
        /\ wk' = [wk EXCEPT ![w].pc = "done", ![w].resp = [code |-> 200, payment |-> cached.value]]
     \/ /\ ~cached.present
        /\ wk' = [wk EXCEPT ![w].pc = "cacheMiss"]
     \/ wk' = [wk EXCEPT ![w].pc = "cacheMiss"]               \* redis.get rejects: logged
  /\ UNCHANGED <<payments, cancellations, ledger, lock, orders, charges, nextPay, nextCan, started, cancelOk, deletedCount, paymentStatus, cache, cancelAnswered>>

\* cache miss: getPaymentById(id); 404 without a row, 500 when it throws
CacheMiss(w) ==
  /\ wk[w].pc = "cacheMiss"
  /\ LET p == wk[w].paymentId
         found == {c.cancellation_id : c \in {x \in cancellations : x.payment_id = p}} IN
     \/ \E e \in DbErrors :
          wk' = [wk EXCEPT ![w].pc = "done", ![w].error = e,
                           ![w].resp = [code |-> 500, body |-> ErrorBody("DATABASE_ERROR")]]
     \/ \E c \in (IF found = {} THEN {0} ELSE found) :
          LET payment == getPaymentById(p, c) IN
          wk' = IF payment.null
                THEN [wk EXCEPT ![w].pc = "done",
                                ![w].resp = [code |-> 404, body |-> ErrorBody("PAYMENT_NOT_FOUND")]]
                ELSE [wk EXCEPT ![w].pc = "cacheSet",
                                ![w].got = [payment EXCEPT !.payment = maskSensitiveData(@)]]
  /\ UNCHANGED <<payments, cancellations, ledger, lock, orders, charges, nextPay, nextCan, started, cancelOk, deletedCount, paymentStatus, cache, cancelAnswered>>

\* redis.set(cacheKey, JSON.stringify(maskedPayment), { EX: 180 }) (a
\* rejection is logged), then the answer 200 with the masked payment
CacheSet(w) ==
  /\ wk[w].pc = "cacheSet"
  /\ \/ cache' = [cache EXCEPT ![wk[w].paymentId] = [present |-> TRUE, value |-> wk[w].got]]
     \/ UNCHANGED cache                                      \* redis.set rejects: logged
  /\ wk' = [wk EXCEPT ![w].pc = "done", ![w].resp = [code |-> 200, payment |-> wk[w].got]]
  /\ UNCHANGED <<payments, cancellations, ledger, lock, orders, charges, nextPay, nextCan, started, cancelOk, deletedCount, paymentStatus, cancelAnswered>>

\* the key payments:{id} runs out after its 180 seconds
CacheExpire(p) ==
  /\ cache[p].present
  /\ cache' = [cache EXCEPT ![p] = NoRec]
  /\ UNCHANGED <<wk, payments, cancellations, ledger, lock, orders, charges, nextPay, nextCan, started, cancelOk, deletedCount, paymentStatus, cancelAnswered>>

\* the steps of GET /payments/:id
GetSteps(w) ==
  GetSubmit(w) \/ CacheGet(w) \/ CacheMiss(w) \/ CacheSet(w)

\* ------------------------------------------------------------ specification
\* the steps of createPayment
CreateSteps(w) ==
  Begin(w) \/ Insert(w) \/ Gateway(w) \/ Finalize(w) \/ Commit(w) \/ Rollback(w)

\* the steps of POST /payments/:id/cancel
CancelSteps(w) ==
  \/ CancelSubmit(w) \/ CBegin(w) \/ CSelect(w) \/ CInsert(w) \/ CUpdate(w) \/ CCommit(w) \/ CRollback(w)
  \/ CacheDelete(w)

\* the steps of POST /payments
RouteSteps(w) ==
  \/ Submit(w) \/ CheckKey(w) \/ ValidateRequest(w) \/ GetResult(w)
  \/ FetchOrder(w) \/ CardPayment(w) \/ AcquireLock(w)
  \/ CreateSteps(w)
  \/ PatchOrder(w) \/ Store(w) \/ Release(w)

\* POST /payments requests of concurrent clients
NextRoute ==
  \/ \E w \in Workers : RouteSteps(w)
  \/ \E o \in Orders : LockExpire(o)
  \/ \E k \in Keys : LedgerExpire(k)
  \/ cleanupExpiredKeys

Spec == Init /\ [][NextRoute]_vars

\* the requests within the lifetime of the ledger rows (24 h against the 30 s
\* of a lock), with a lock store that honours the TTL of its keys: an expiry
\* that is due happens; a request handler may stop at any step
NextLive ==
  \/ \E w \in Workers : RouteSteps(w)
  \/ \E o \in Orders : LockExpire(o)

SpecLive == Init /\ [][NextLive]_vars /\ \A o \in Orders : WF_vars(LockExpire(o))

\* the payment service: concurrent createPayment calls and cancel requests
NextService ==
  \E w \in Workers : CreateCall(w) \/ CreateSteps(w) \/ CancelSteps(w)

SpecService == Init /\ [][NextService]_vars

\* createPayment called with arbitrary arguments, and getPaymentById after it
NextCalls ==
  \E w \in Workers :
    CreatePayment(w) \/ Validate(w) \/ CreateSteps(w) \/ GetCall(w) \/ GetPayment(w)

SpecCalls == Init /\ [][NextCalls]_vars

\* the idempotency-key functions called by concurrent callers while the
\* database clock moves on
NextLedger ==
  \/ \E w \in Workers : StoreCall(w) \/ LedgerInsert(w) \/ LedgerLookup(w)
  \/ \E k \in Keys : LedgerExpire(k)
  \/ cleanupExpiredKeys

SpecLedger == Init /\ [][NextLedger]_vars

\* processCardPayment called with every shape of card data
NextCard == \E w \in Workers : CardCall(w)

SpecCard == Init /\ [][NextCard]_vars

\* ------------------------------------------------------------------ claims
PayDone(w) == wk[w].op = "pay" /\ wk[w].pc = "done"

\* The request of worker w is a later call for its key: when it arrived, the
\* ledger row of an earlier, answered call was there and unexpired, it still
\* is, and every ledger query of w's checkIdempotency was answered.
LaterCall(w) ==
  /\ PayDone(w)
  /\ wk[w].prior.present
  /\ ledger[wk[w].body.idempotency_key] = wk[w].prior
  /\ ~wk[w].fault

\* w's request has the logical fields (order, method and with them the amount)
\* of the call that wrote the ledger row
SameRequest(w) == hashRequestData(StoreRequestData(wk[w].body)) = wk[w].prior.request_hash

\* C1: for submissions with the same idempotency key at most one charge is
\* performed, gateway calls and card charges counted together.
C1_AtMostOneCharge == \A k \in Keys : charges[k] <= 1

\* C2: there is at most one committed Payment row per idempotency key, for
\* concurrent createPayment calls that no lock keeps apart.
C2_OneRowPerKey == \A k \in Keys : Cardinality(CommittedWithKey(k)) <= 1

\* two createPayment calls used the same key: one committed its row, the
\* other was stopped by the UNIQUE index
C2_Witness ==
  \E w, v \in Workers :
    /\ w # v
    /\ wk[w].op = "create" /\ wk[w].pc = "done" /\ wk[w].error = DupEntryMsg
    /\ wk[v].op = "create" /\ wk[v].pc = "done" /\ ~wk[v].result.null
    /\ wk[v].body.idempotency_key = wk[w].body.idempotency_key
    /\ CommittedWithKey(wk[w].body.idempotency_key) = {wk[v].result.paymentId}

\* C3: a later call with the same key and the same logical fields gets the
\* first call's response, status and body, from checkIdempotency alone: no
\* charge, no createPayment, no ledger write.
C3_ReplayExact ==
  \A w \in Workers :
    LaterCall(w) /\ SameRequest(w) =>
      /\ wk[w].resp = [code |-> wk[w].prior.firstCode, body |-> JSONParse(wk[w].prior.response_data)]
      /\ ~wk[w].charged
      /\ wk[w].paymentId = 0

\* C4: a later call with the same key but another order, amount or method is
\* answered 409 DUPLICATE_REQUEST; it charges nothing and inserts nothing, and
\* the Payment row the stored response names still has the status stored there.
C4_ConflictRejected ==
  \A w \in Workers :
    LaterCall(w) /\ ~SameRequest(w) =>
      /\ wk[w].resp = [code |-> 409, body |-> ErrorBody("DUPLICATE_REQUEST")]
      /\ ~wk[w].charged
      /\ wk[w].paymentId = 0
      /\ LET first == JSONParse(wk[w].prior.response_data)
             members == {first[i] : i \in 1 .. Len(first)} IN
         \A p \in PayIds :
           <<"payment_id", ToString(p)>> \in members => <<"status", payments[p].status>> \in members

\* a later call with another order or method has been answered
C4_Witness ==
  \E w \in Workers :
    /\ LaterCall(w) /\ ~SameRequest(w)
    /\ wk[w].resp.code = 409
    /\ CommittedWithKey(wk[w].body.idempotency_key) # {}

\* C5: when the INSERT of createPayment fails on the UNIQUE index of
\* idempotency_key, the caller gets an answer that differs from the generic
\* 500 PAYMENT_FAILED, and the call leaves no Payment row of its own.
C5_DuplicateDistinct ==
  \A w \in Workers :
    PayDone(w) /\ wk[w].error = DupEntryMsg =>
      /\ wk[w].resp # [code |-> 500, body |-> ErrorBody("PAYMENT_FAILED")]
      /\ payments[wk[w].paymentId].status = "none"

\* the status of payment p as its writer sees it: the committed row, or the
\* row the open transaction of its createPayment call holds
RowStatus(p) ==
  IF payments[p].status # "none" THEN payments[p].status
  ELSE LET holders == {w \in Workers : wk[w].txn.open /\ wk[w].op \in {"pay", "create"}
                                         /\ wk[w].txn.row.status # "none"
                                         /\ wk[w].txn.row.payment_id = p}
       IN IF holders = {} THEN "none" ELSE wk[CHOOSE w \in holders : TRUE].txn.row.status

StatusSteps ==
  {<<"none", "pending">>, <<"pending", "completed">>, <<"pending", "failed">>,
   <<"completed", "cancelled">>}

\* a rollback takes the uncommitted row away again
RolledBack(p) == payments[p].status = "none" /\ RowStatus(p)' = "none"

\* C6: a Payment's status changes only along pending->completed,
\* pending->failed and completed->cancelled; nothing leaves failed or
\* cancelled, nothing returns to pending.
C6_StatusMonotonic ==
  [][\A p \in PayIds :
       \/ RowStatus(p)' = RowStatus(p)
       \/ <<RowStatus(p), RowStatus(p)'>> \in StatusSteps
       \/ RolledBack(p)]_vars

\* one payment was cancelled after completing and another one failed
C6_Witness ==
  /\ \E p \in PayIds : payments[p].status = "cancelled"
  /\ \E p \in PayIds : payments[p].status = "failed"

\* C7: a committed Payment with status completed has its transaction_id, and
\* one with status failed has its gateway_response.
C7_TerminalHasDetail ==
  \A p \in PayIds :
    /\ payments[p].status = "completed" => payments[p].transaction_id \notin {NULL, Undefined}
    /\ payments[p].status = "failed" => payments[p].gateway_response \notin {NULL, Undefined}

\* a payment completed on the card-charge result and another one failed at the gateway
C7_Witness ==
  /\ \E p \in PayIds : payments[p].status = "completed" /\ payments[p].transaction_id = "TXN-card"
  /\ \E p \in PayIds : payments[p].status = "failed"

\* C8: no committed Payment row is pending, and once createPayment has
\* returned or thrown, the row of that call is completed, failed or gone.
C8_NoCommittedPending ==
  /\ \A p \in PayIds : payments[p].status # "pending"
  /\ \A w \in Workers :
       wk[w].op = "create" /\ wk[w].pc = "done" /\ wk[w].paymentId # 0 =>
         /\ RowStatus(wk[w].paymentId) # "pending"
         /\ wk[w].result.null => payments[wk[w].paymentId].status = "none"
         /\ ~wk[w].result.null =>
              payments[wk[w].paymentId].status \in {wk[w].result.status, "cancelled"}

\* one createPayment call returned a completed payment and one threw after its INSERT
C8_Witness ==
  \E w, v \in Workers :
    /\ wk[w].op = "create" /\ wk[w].pc = "done" /\ ~wk[w].result.null
    /\ wk[w].result.status = "completed"
    /\ wk[v].op = "create" /\ wk[v].pc = "done" /\ wk[v].result.null /\ wk[v].paymentId # 0

\* C9: when createPayment throws after its INSERT, no Payment row of the call
\* and no side effect of it is left: in particular no charge without a row.
C9_RollbackLeavesNothing ==
  \A w \in Workers :
    wk[w].op = "create" /\ wk[w].pc = "done" /\ wk[w].error # "none" /\ wk[w].paymentId # 0 =>
      /\ payments[wk[w].paymentId].status = "none"
      /\ ~wk[w].charged

CancelDone(w) == wk[w].op = "cancel" /\ wk[w].pc = "done"

\* C10: of a sequence of cancel calls for a completed payment one succeeds,
\* with {cancellationId, status: cancelled}; a call that starts after a
\* successful one fails with 'Only completed payments can be cancelled' and
\* adds no Cancellation row (calls the database turns down aside).
C10_CancelOnce ==
  \A w \in Workers :
    CancelDone(w) =>
      /\ wk[w].afterSuccess =>
           /\ wk[w].resp.code # 200
           /\ wk[w].error \notin DbErrors =>
                /\ wk[w].error = NotCompletedMsg
                /\ wk[w].resp = [code |-> 422, body |-> ErrorBody("INVALID_PAYMENT_STATUS")]
           /\ \A c \in cancellations : c.cancellation_id # wk[w].cancelId
      /\ wk[w].resp.code = 200 =>
           /\ ~wk[w].afterSuccess
           /\ payments[wk[w].paymentId].status = "cancelled"
           /\ [cancellation_id |-> wk[w].cancelId, payment_id |-> wk[w].paymentId] \in cancellations

\* one cancel call succeeded and a later one for the same payment was refused
C10_Witness ==
  \E w, v \in Workers :
    /\ w # v
    /\ CancelDone(w) /\ wk[w].resp.code = 200
    /\ CancelDone(v) /\ wk[v].afterSuccess /\ wk[v].paymentId = wk[w].paymentId
    /\ wk[v].error = NotCompletedMsg
    /\ Cardinality({c \in cancellations : c.payment_id = wk[w].paymentId}) = 1

\* C11: there is at most one Cancellation row per Payment, concurrent
\* cancelPayment calls for the same completed payment included.
C11_OneCancellationPerPayment ==
  \A p \in PayIds : Cardinality({c \in cancellations : c.payment_id = p}) <= 1

\* C12: in every committed state a Payment is cancelled exactly if a
\* Cancellation row references it, and a cancelPayment call that fails leaves
\* neither its Cancellation row nor a status it has set.
C12_CancelAtomic ==
  /\ \A p \in PayIds :
       payments[p].status = "cancelled" <=> \E c \in cancellations : c.payment_id = p
  /\ \A w \in Workers :
       CancelDone(w) /\ wk[w].error # "none" =>
         /\ \A c \in cancellations : c.cancellation_id # wk[w].cancelId
         /\ payments[wk[w].paymentId].status = "cancelled" => cancelOk[wk[w].paymentId] > 0

\* one cancel call committed both changes, another one failed after its INSERT
C12_Witness ==
  \E w, v \in Workers :
    /\ CancelDone(w) /\ wk[w].resp.code = 200 /\ payments[wk[w].paymentId].status = "cancelled"
    /\ CancelDone(v) /\ wk[v].error # "none" /\ wk[v].cancelId # 0

\* C13: cancelPayment on a payment that does not exist or is not completed
\* fails, with the not-found error or the invalid-state error when the
\* database carries out every statement of the call, and the call writes no
\* Cancellation row and leaves the Payment's status as it read it.
C13_CancelRefused ==
  \A w \in Workers :
    CancelDone(w) /\ wk[w].payment.status \in {"none", "pending", "failed", "cancelled"} =>
      /\ wk[w].resp.code # 200
      /\ wk[w].error # "none"
      /\ wk[w].error \notin DbErrors =>
           IF wk[w].payment.status = "none"
             THEN /\ wk[w].error = NotFoundMsg
                  /\ wk[w].resp = [code |-> 404, body |-> ErrorBody("PAYMENT_NOT_FOUND")]
             ELSE /\ wk[w].error = NotCompletedMsg
                  /\ wk[w].resp = [code |-> 422, body |-> ErrorBody("INVALID_PAYMENT_STATUS")]
      /\ wk[w].cancelId = 0
      /\ wk[w].payment.status \in {"failed", "cancelled"} =>
           payments[wk[w].paymentId].status = wk[w].payment.status

\* cancel calls on a failed payment and on a missing payment have been refused
C13_Witness ==
  \E w, v \in Workers :
    /\ CancelDone(w) /\ wk[w].payment.status = "failed" /\ wk[w].error = NotCompletedMsg
    /\ CancelDone(v) /\ wk[v].payment.status = "none" /\ wk[v].error = NotFoundMsg

\* C14: createPayment followed by getPaymentById(result.paymentId) returns a
\* record with the status createPayment returned, completed or failed, and
\* with the order_id, user_id and amount that were passed in.
C14_CreateThenGet ==
  \A w \in Workers :
    wk[w].pc = "got" /\ wk[w].error = "none" =>
      /\ ~wk[w].got.null
      /\ wk[w].got.payment.status \in {"completed", "failed"}
      /\ wk[w].got.payment.status = wk[w].result.status
      /\ wk[w].got.payment.order_id = wk[w].args.orderId.value
      /\ wk[w].got.payment.user_id = wk[w].args.userId.value
      /\ Money(wk[w].got.payment.amount, 0) = wk[w].args.amount

\* the inputs C15 speaks of
InvalidInput(a) ==
  \/ a.amount.defined /\ (a.amount.cents < 0 \/ (a.amount.cents = 0 /\ a.amount.mills = 0))
  \/ a.amount.defined /\ (a.amount.cents > MaxAmountCents
                           \/ (a.amount.cents = MaxAmountCents /\ a.amount.mills > 0))
  \/ ~a.orderId.defined \/ a.orderId.value <= 0
  \/ ~a.userId.defined \/ a.userId.value <= 0
  \/ a.paymentMethod \notin ValidMethods
  \/ a.idempotencyKey \in {Undefined, ""}

C16_DeclineReturns ==
  \A w \in Workers :
    /\ wk[w].op = "create" /\ wk[w].pc = "done"
    /\ ~wk[w].gatewayResult.null /\ ~wk[w].gatewayResult.success
    /\ wk[w].error \notin DbErrors
    => /\ wk[w].error = "none"
       /\ wk[w].result = [null |-> FALSE, paymentId |-> wk[w].paymentId, status |-> "failed",
                          transactionId |-> Undefined, errorMessage |-> DeclinedMsg]
       /\ payments[wk[w].paymentId].status = "failed"
       /\ payments[wk[w].paymentId].gateway_response = DeclinedMsg

\* a createPayment call whose charge the gateway declined has returned
C16_Witness ==
  \E w \in Workers :
    /\ wk[w].op = "create" /\ wk[w].pc = "done" /\ wk[w].error = "none"
    /\ ~wk[w].gatewayResult.null /\ ~wk[w].gatewayResult.success
    /\ payments[wk[w].paymentId].status = "failed"

\* the answer the route gives for createPayment's result
Outcome(w) ==
  [code |-> IF wk[w].result.status = "completed" THEN 200 ELSE 422,
   body |-> ResponseData(wk[w].result)]

\* C17: a failure of the ledger does not block a payment: when a lookup of
\* checkIdempotency throws, the request is handed to the payment handler,
\* which fetches the order as for a new request; when the write after a
\* committed payment throws, the caller gets the payment's response and the
\* committed row stays as createPayment returned it.
C17_LedgerFailureAbsorbed ==
  \A w \in Workers :
    wk[w].op = "pay" =>
      /\ wk[w].fault =>
           \/ wk[w].pc = "fetchOrder"
           \/ wk[w].userId # 0
           \/ /\ wk[w].pc = "done"
              /\ wk[w].resp \in {[code |-> 404, body |-> ErrorBody("ORDER_NOT_FOUND")],
                                 [code |-> 422, body |-> ErrorBody("INVALID_ORDER_STATUS")]}
      /\ wk[w].storeFault =>
           /\ wk[w].pc \in {"release", "done"}
           /\ wk[w].resp = Outcome(w)
           /\ payments[wk[w].result.paymentId].status = wk[w].result.status
           /\ payments[wk[w].result.paymentId].idempotency_key = wk[w].body.idempotency_key

\* one request was answered with its payment although the ledger write
\* failed, and another one stands at the handler after a failed lookup
C17_Witness ==
  \E w, v \in Workers :
    /\ wk[w].op = "pay" /\ wk[w].pc = "done" /\ wk[w].storeFault /\ wk[w].resp.code = 200
    /\ wk[v].op = "pay" /\ wk[v].pc = "fetchOrder" /\ wk[v].fault

\* C18: a submission whose redis.set throws goes on to createPayment without
\* the lock, is answered with the payment outcome when createPayment returns,
\* and its release step leaves the lock store alone.
C18_FailOpen ==
  [][\A w \in Workers :
       wk'[w].op = "pay" /\ wk'[w].lockError =>
         /\ ~wk'[w].hasLock
         /\ ~wk[w].lockError => wk'[w].pc = "begin"
         /\ wk[w].pc = "release" /\ wk'[w].pc = "done" => lock' = lock
         /\ wk'[w].pc = "done" =>
              /\ wk'[w].resp.code # 429
              /\ wk'[w].error = "none" => wk'[w].resp = Outcome(w)']_vars

\* a submission that could not reach the lock store has been answered with
\* its completed payment
C18_Witness ==
  \E w \in Workers :
    /\ wk[w].op = "pay" /\ wk[w].pc = "done" /\ wk[w].lockError
    /\ wk[w].resp.code = 200 /\ payments[wk[w].paymentId].status = "completed"

\* C19: a submission that finds the lock held answers PAYMENT_IN_PROGRESS and
\* has created no Payment row, performed no charge (gateway or card) and
\* written no ledger record; the lock stays with its holder.
C19_LockHeldStops ==
  \A w \in Workers :
    PayDone(w) /\ wk[w].resp = [code |-> 429, body |-> ErrorBody("PAYMENT_IN_PROGRESS")] =>
      /\ ~wk[w].charged
      /\ wk[w].paymentId = 0
      /\ wk[w].result.null
      /\ ~wk[w].hasLock

\* C20: every submission takes the steps in the specified order: the lock is
\* tried before the ledger is consulted, the ledger is consulted before
\* createPayment and any charge, the outcome is stored after the terminal
\* state is committed, and the lock is released after the ledger write.
C20_ProtocolOrder ==
  \A w \in Workers :
    wk[w].op = "pay" =>
      /\ wk[w].pc \notin {"checkKey"} =>
           wk[w].hasLock \/ wk[w].lockError \/ wk[w].resp.code = 429
      /\ wk[w].charged \/ wk[w].txn.open =>
           wk[w].pc \notin {"checkKey", "validateRequest", "getResult"}
      /\ wk[w].pc = "store" =>
           payments[wk[w].result.paymentId].status = wk[w].result.status
      /\ wk[w].pc = "release" => wk[w].resp = Outcome(w)

\* C21: a lock that a submission has set does not stay for ever: whether the
\* submission finished, failed to release it or stopped, the key is absent
\* again at the latest when its TTL runs out.
C21_LockEventuallyAbsent ==
  \A o \in Orders : (lock[o] # "none") ~> (lock[o] = "none")

\* a submission has been answered with an error and its lock is still set
C21_Witness ==
  \E w \in Workers :
    /\ PayDone(w) /\ wk[w].hasLock /\ wk[w].error # "none"
    /\ lock[wk[w].body.order_id] = w

\* a direct storeIdempotencyKey call that has returned or thrown
StoreDone(w) == wk[w].op = "store" /\ wk[w].pc = "done" /\ wk[w].args.key # Undefined

\* C22: once a ledger record for a key is written, its request fingerprint
\* and its stored response never change for as long as the record exists:
\* no later storeIdempotencyKey call for the key, with the same or with
\* other request data, overwrites them.
C22_RecordImmutable ==
  [][\A k \in Keys :
       ledger[k].present /\ ledger'[k].present =>
         /\ ledger'[k].request_hash = ledger[k].request_hash
         /\ ledger'[k].response_data = ledger[k].response_data]_vars

\* a storeIdempotencyKey call with other request data and another response
\* returned while the record of its key was there, and the record is still
\* the one it met
C22_Witness ==
  \E w \in Workers :
    /\ StoreDone(w) /\ wk[w].error = "none"
    /\ wk[w].prior.present
    /\ ledger[wk[w].args.key] = wk[w].prior
    /\ hashRequestData(wk[w].args.requestData) # wk[w].prior.request_hash
    /\ JSONStringify(wk[w].args.response) # wk[w].prior.response_data

\* C23: when two first-time writes of a ledger record for one key race, one
\* record persists, the winner's; the loser's storeIdempotencyKey, whose
\* INSERT meets the winner's row, returns without error and leaves every
\* ledger record as it was.
C23_LoserDefers ==
  [][\A w \in Workers :
       /\ wk[w].pc = "ledgerInsert" /\ wk'[w].pc = "done"
       /\ ledger[wk[w].args.key].present
       /\ wk'[w].error \notin DbErrors
       => /\ wk'[w].error = "none"
          /\ ledger' = ledger]_vars

\* both calls passed their argument checks before either wrote; v's INSERT
\* wrote the record, w's met it and returned without error, and the record
\* holds v's fingerprint and response
C23_Witness ==
  \E w, v \in Workers :
    /\ w # v
    /\ StoreDone(w) /\ StoreDone(v)
    /\ wk[w].args.key = wk[v].args.key
    /\ wk[w].args # wk[v].args
    /\ ~wk[v].prior.present /\ wk[v].error = "none"
    /\ wk[w].prior = LedgerRow(wk[v].args.requestData, wk[v].args.response, 0)
    /\ wk[w].error = "none"
    /\ started.ledger = 2
    /\ ledger[wk[v].args.key] = wk[w].prior

\* a direct lookup call that returned a value
LookupDone(w, f) == wk[w].op = f /\ wk[w].pc = "done" /\ ~wk[w].result.null

\* the record the lookup's SELECT could see counts: it exists and its
\* expires_at is strictly later than the database clock
Found(row) == row.present /\ row.expires_at = "later"

\* C24: a ledger lookup reports a key as found if and only if a record for
\* the key exists with expires_at strictly later than now; a record that
\* has expired and was not swept is treated like an absent one by
\* checkIdempotencyKey (false), validateRequestData (true: no conflict) and
\* getIdempotencyResult (null: no replay).
C24_FoundIffUnexpired ==
  \A w \in Workers :
    /\ LookupDone(w, "checkIdempotencyKey") =>
         (wk[w].result.value.exists <=> Found(wk[w].prior))
    /\ LookupDone(w, "validateRequestData") =>
         (wk[w].result.value.isValid <=>
            (Found(wk[w].prior) =>
               hashRequestData(wk[w].args.requestData) = wk[w].prior.request_hash))
    /\ LookupDone(w, "getIdempotencyResult") =>
         wk[w].result.value.responseData =
           IF Found(wk[w].prior)
             THEN [null |-> FALSE, value |-> JSONParse(wk[w].prior.response_data)]
             ELSE Null

\* a record whose expires_at is the present instant and that was written for
\* another request: validateRequestData reports no conflict
C24_Witness ==
  \E w \in Workers :
    /\ LookupDone(w, "validateRequestData")
    /\ wk[w].prior.present /\ wk[w].prior.expires_at = "now"
    /\ hashRequestData(wk[w].args.requestData) # wk[w].prior.request_hash
    /\ wk[w].result.value.isValid

StoredMembers(k) ==
  LET stored == JSONParse(ledger[k].response_data) IN {stored[i] : i \in 1 .. Len(stored)}

\* C26: a ledger record is written only after the submission reached a
\* terminal outcome: each ledger record the payment route wrote has a key for
\* which a committed Payment row in status completed, failed or cancelled
\* exists, and its stored response names that payment's id.
C26_LedgerAfterTerminal ==
  \A k \in Keys :
    ledger[k].present =>
      \E p \in CommittedWithKey(k) :
        /\ payments[p].status \in {"completed", "failed", "cancelled"}
        /\ <<"payment_id", ToString(p)>> \in StoredMembers(k)

\* the record of a declined payment and the record of an approved one
C26_Witness ==
  \E k, j \in Keys :
    /\ ledger[k].present /\ ledger[j].present
    /\ \E p \in CommittedWithKey(k) : payments[p].status = "failed"
    /\ \E p \in CommittedWithKey(j) : payments[p].status = "completed"

\* a direct processCardPayment call that has returned
CardDone(w) == wk[w].op = "processCardPayment" /\ wk[w].pc = "done"

\* card_data carries a card number, a CVV or an expiry
DetailsSupplied(cardData) ==
  cardData.defined /\ {cardData.card_number, cardData.cvv, cardData.expiry} # {Undefined}

\* C27: whenever card details are supplied, a successful card-charge result
\* is produced only after the pre-check passed (Luhn checksum of the card
\* number, CVV format, month and year not expired), for every shape of
\* card_data, card_data that carries a saved_card_id included.
C27_PreCheckBeforeSuccess ==
  \A w \in Workers :
    CardDone(w) /\ DetailsSupplied(wk[w].args.cardData) /\ wk[w].cardPaymentResult.success =>
      /\ isValidCardNumber(wk[w].args.cardData.card_number)
      /\ isValidCVV(wk[w].args.cardData.cvv)
      /\ isValidExpiry(wk[w].args.cardData.expiry)

\* the member values of a JSON text
Values(text) == {JSONParse(text)[i][2] : i \in 1 .. Len(JSONParse(text))}

\* the texts held by the committed Payment rows, by the ledger records (the
\* request data under the fingerprint, the stored response) and by the Redis
\* keys of the payment route
RowTexts ==
  UNION {{payments[p].transaction_id, payments[p].gateway_response,
          payments[p].payment_method, payments[p].idempotency_key} :
         p \in {q \in PayIds : payments[q].status # "none"}}
LedgerTexts ==
  UNION {Values(ledger[k].request_hash[2]) \cup Values(ledger[k].response_data) :
         k \in {j \in Keys : ledger[j].present}}
RedisTexts ==
  UNION {Values(paymentStatus[p].value) : p \in {q \in PayIds : paymentStatus[q].present}}
  \cup {LockValue : o \in {i \in Orders : lock[i] # "none"}}

\* the card numbers, CVVs and expiries of the card data the clients submit
CardSecrets == UNION {{c.card_number, c.cvv, c.expiry} : c \in CardDatas} \ {Undefined}

\* C28: no raw card number, CVV or expiry supplied in card_data reaches
\* durable or shared storage: the Payment rows, the ledger records
\* (fingerprint and stored response) and the Redis keys the payment route
\* writes contain none of these values.
C28_NoCardDataStored == CardSecrets \cap (RowTexts \cup LedgerTexts \cup RedisTexts) = {}

\* a request with card data was charged and answered: its Payment row, its
\* ledger record and its payment_status key are written
C28_Witness ==
  \E w \in Workers :
    /\ PayDone(w)
    /\ wk[w].body.card_data.defined
    /\ ~wk[w].cardPaymentResult.null
    /\ ~wk[w].result.null
    /\ payments[wk[w].result.paymentId].transaction_id = wk[w].cardPaymentResult.transactionId
    /\ ledger[wk[w].body.idempotency_key].present
    /\ paymentStatus[wk[w].result.paymentId].present

\* C29: a charge is attempted for an order only if the order lookup returned
\* the order in status pending, and the order is marked paid only after
\* createPayment returned status completed for it: a failed payment, a
\* rejected submission or an exception never marks the order paid.
C29_PendingThenPaid ==
  [][/\ \A w \in Workers :
          wk'[w].charged /\ wk'[w].op = "pay" => wk'[w].orderStatus = "pending"
     /\ \A o \in Orders :
          orders[o] # "paid" /\ orders'[o] = "paid" =>
            \E w \in Workers :
              /\ wk[w].pc = "patchOrder" /\ wk'[w].pc = "store"
              /\ wk[w].body.order_id = o
              /\ ~wk[w].result.null
              /\ wk[w].result.status = "completed"
              /\ payments[wk[w].result.paymentId].status = "completed"
              /\ payments[wk[w].result.paymentId].order_id = o]_vars

\* one request paid order o; others for that order were declined at the
\* gateway, or turned away because the lookup returned the order as paid
C29_Witness ==
  \E w, v \in Workers :
    /\ w # v
    /\ PayDone(w) /\ PayDone(v)
    /\ wk[w].body.order_id = wk[v].body.order_id
    /\ orders[wk[w].body.order_id] = "paid"
    /\ wk[w].charged /\ wk[w].resp.code = 200
    /\ wk[v].orderStatus = "paid" /\ ~wk[v].charged

\* a createPayment call of worker w has returned its result
Returned(w) == wk[w].op = "create" /\ wk[w].pc \in {"done", "getPayment", "got"} /\ ~wk[w].result.null

\* C30: when a precomputed charge result (a successful card charge, as the
\* route passes it) is handed to createPayment, processPaymentGateway is not
\* invoked and the Payment is finalized with that result's transactionId as
\* gateway reference; when none is handed over, the gateway is invoked
\* exactly once, with the payment's amount and method.
C30_PrecomputedResultUsed ==
  \A w \in Workers :
    wk[w].op = "create" =>
      /\ ~wk[w].args.cardPaymentResult.null => wk[w].gatewayCalls = << >>
      /\ Returned(w) /\ ~wk[w].args.cardPaymentResult.null =>
           /\ wk[w].result.status = "completed"
           /\ wk[w].result.transactionId = wk[w].args.cardPaymentResult.transactionId
           /\ payments[wk[w].result.paymentId].transaction_id = wk[w].args.cardPaymentResult.transactionId
      /\ Returned(w) /\ wk[w].args.cardPaymentResult.null =>
           wk[w].gatewayCalls = <<[paymentId |-> wk[w].result.paymentId, amount |-> wk[w].args.amount,
                                   paymentMethod |-> wk[w].args.paymentMethod]>>

\* one call was handed a charge result and returned, another was handed none
\* and returned after the gateway approved or declined
C30_Witness ==
  \E w, v \in Workers :
    /\ Returned(w) /\ ~wk[w].args.cardPaymentResult.null
    /\ Returned(v) /\ wk[v].args.cardPaymentResult.null

\* the committed Payment rows of order o in status completed
CompletedFor(o) == {p \in PayIds : payments[p].status = "completed" /\ payments[p].order_id = o}

\* C31: for any order at most one Payment reaches status completed through
\* POST /payments, for every interleaving of submissions with different
\* idempotency keys for the order, the mark-paid call failing or not.
C31_OneCompletedPerOrder == \A o \in Orders : Cardinality(CompletedFor(o)) <= 1

\* C32: the fingerprint computed when a request is checked equals the one
\* stored when the same request was recorded, for every body
\* validatePaymentRequest accepts (bodies that carry total_price included):
\* an identical retry is judged a match and never a conflict.
C32_SameFingerprint ==
  \A w \in Workers :
    LaterCall(w) /\ SameRequest(w) =>
      /\ hashRequestData(CheckRequestData(wk[w].body)) = wk[w].prior.request_hash
      /\ wk[w].resp.code # 409

\* C33: every POST /payments request that acquired the per-order lock
\* deletes it before its handler finishes, on the success path and on every
\* failure path (createPayment throwing, for one), while the lock store is
\* reachable: the lock does not outlive the request that set it.
C33_LockReleasedAtEnd ==
  \A w \in Workers :
    PayDone(w) /\ wk[w].hasLock /\ ~wk[w].releaseError => lock[wk[w].body.order_id] # w

\* the step in which request w deletes payment_lock:{o}
Deletes(w, o) ==
  /\ wk[w].pc = "release" /\ wk'[w].pc = "done"
  /\ wk[w].hasLock /\ ~wk'[w].releaseError
  /\ wk[w].body.order_id = o

\* C34: a request deletes payment_lock:{orderId} only while the lock in the
\* store is the one that request set: a request whose own lock has run out
\* by TTL never deletes the lock another request set afterwards for the order.
C34_DeletesOwnLock ==
  [][\A w \in Workers, o \in Orders :
       Deletes(w, o) /\ lock[o] # "none" => lock[o] = w]_vars

\* the requests of order o between their lock acquisition and their lock
\* release, the lock store having answered them
InCritical(o) ==
  {w \in Workers : /\ wk[w].op = "pay" /\ wk[w].hasLock /\ wk[w].body.order_id = o
                   /\ wk[w].pc \notin {"idle", "done"}}

\* C35: while the lock store is reachable, at most one request per order is
\* between its lock acquisition and its lock release at any time, for every
\* interleaving of requests and of lock TTL expiry.
C35_OneHolderPerOrder == \A o \in Orders : Cardinality(InCritical(o)) <= 1

\* the createPayment or cancelPayment call of worker w has returned or thrown
CallOver(w) == wk[w].op \in {"create", "cancel"} /\ wk[w].pc \in {"cacheDelete", "done"}

\* C36: every createPayment and cancelPayment call that obtained a database
\* connection releases it exactly once before it returns or throws, on
\* every path (commit, an error after the connection was taken, a gateway
\* exception, a rollback that itself fails); and when the rollback fails
\* the caller still receives the original error.
C36_ReleaseOnceOriginalError ==
  [][\A w \in Workers :
       /\ wk'[w].released = IF CallOver(w)' /\ wk'[w].connection THEN 1 ELSE 0
       /\ wk[w].pc = "rollback" /\ wk'[w].pc = "done" => wk'[w].error = wk[w].error]_vars

\* the database after one createPayment call that completed payment 1
InitCache ==
  /\ wk = [w \in Workers |-> IdleWorker]
  /\ payments = [p \in PayIds |->
                   IF p = 1
                   THEN approvePayment([payment_id |-> 1, order_id |-> 1, user_id |-> OrderUser(1),
                                        amount |-> OrderTotal(1), payment_method |-> "card",
                                        status |-> "pending", transaction_id |-> NULL,
                                        gateway_response |-> NULL, idempotency_key |-> "k1"],
                                       "TXN-card")
                   ELSE NoRow]
  /\ cancellations = {}
  /\ ledger = [k \in Keys |-> NoRec]
  /\ lock = [o \in Orders |-> "none"]
  /\ orders = [o \in Orders |-> "pending"]
  /\ charges = [k \in Keys |-> 0]
  /\ nextPay = 2
  /\ nextCan = 1
  /\ started = [pay |-> 0, create |-> 1, cancel |-> 0, call |-> 0, ledger |-> 0, card |-> 0, get |-> 0]
  /\ cancelOk = [p \in PayIds |-> 0]
  /\ deletedCount = 0
  /\ paymentStatus = [p \in PayIds |-> NoRec]
  /\ cache = [p \in PayIds |-> NoRec]
  /\ cancelAnswered = [p \in PayIds |-> FALSE]

\* cancel requests and GET requests of concurrent clients for the payments
\* of the database, with a cache that honours the TTL of its keys
NextCache ==
  \/ \E w \in Workers : CancelSteps(w) \/ GetSteps(w)
  \/ \E p \in PayIds : CacheExpire(p)

SpecCache == InitCache /\ [][NextCache]_vars

\* the GET request of worker w has been answered with a payment
GetAnswered(w) == wk[w].op = "get" /\ wk[w].pc = "done" /\ wk[w].resp.code = 200

====
